---- MODULE Spec2Model ----
(***************************************************************************)
(* s3dedup: the incremental index (db.py), the scanner (scanner.py), the   *)
(* Pass 3 driver (hasher.py), the retention selector and the delete script *)
(* (script_generator.py, normalizer.py) and the rename planner             *)
(* (cleaner.py) as state machines.                                         *)
(*                                                                         *)
(* Strings that the code inspects character by character (keys, prefixes,  *)
(* etags) are sequences of one-character strings.                          *)
(***************************************************************************)
EXTENDS Integers, Sequences, FiniteSets, TLC

VARIABLES
    bucket,      \* the remote bucket: key -> object (body, size, etag, last_modified)
    objects,     \* table objects: key -> row
    clock,       \* what now() returns
    bucketOps,   \* number of remote changes made so far
    pc,          \* "idle" | "scanning" | "returning" | "hashing" | "hashed"
    scan,        \* locals of the running scan_bucket
    dbcalls,     \* index calls issued by the running (or last) scan_bucket
    result,      \* outcome of the last scan_bucket
    lastScan,    \* <<p>>: the previous call of scan_bucket completed with prefix p and
                 \* the bucket has not changed since; <<>> otherwise
    hash,        \* locals of the running hash_multipart_candidates
    db,          \* arguments and observations of direct calls of the index API and
                 \* of the script generators
    files,       \* the output files: path -> content (a sequence of lines)
    media_metadata  \* table media_metadata: key -> row

vars == <<bucket, objects, clock, bucketOps, pc, scan, dbcalls, result, lastScan, hash, db,
          files, media_metadata>>

----------------------------------------------------------------------------
(* Bounds *)

\* remote puts and deletes
MaxBucketOps == 2

\* calls of scan_bucket
MaxScans == 2

\* entries per listing page
PageSize == 2

\* scanner.py:23 sets 1000; scaled down so that a batch is flushed mid-listing
BATCH_SIZE == 2

\* SQL NULL / Python None in a string column (no digest and no etag is empty)
NULL == <<>>

----------------------------------------------------------------------------
(* Characters and strings *)

\* the characters used, in code point order
\* ("(c)" and "A~" stand for U+00A9 and U+00C3)
Chars ==
    <<" ", "\"", "%", "(", ")", "-", ".", "/", "0", "1", "2", "3", "4", "5", "6", "7", "8",
      "9", "A", "C", "_", "a", "b", "c", "d", "e", "f", "i", "o", "p", "x", "y", "(c)", "A~",
      "a~">>

\* rank of a character in code point order
CharCode == [c \in {Chars[i] : i \in 1..Len(Chars)} |-> CHOOSE i \in 1..Len(Chars) : Chars[i] = c]

Digits == {"0", "1", "2", "3", "4", "5", "6", "7", "8", "9"}

RECURSIVE StrLess(_, _)
\* s < t, comparing code points (Python str order, SQL ORDER BY on VARCHAR, S3 listing order)
StrLess(s, t) ==
    IF t = <<>> THEN FALSE
    ELSE IF s = <<>> THEN TRUE
    ELSE IF Head(s) = Head(t) THEN StrLess(Tail(s), Tail(t))
    ELSE CharCode[Head(s)] < CharCode[Head(t)]

\* str.startswith
StartsWith(s, p) == Len(p) <= Len(s) /\ SubSeq(s, 1, Len(p)) = p

RECURSIVE Like(_, _)
\* SQL: s LIKE p, where % matches any run of characters and _ any one character
Like(s, p) ==
    IF p = <<>> THEN s = <<>>
    ELSE IF Head(p) = "%" THEN Like(s, Tail(p)) \/ (s # <<>> /\ Like(Tail(s), p))
    ELSE s # <<>> /\ (Head(p) = "_" \/ Head(p) = Head(s)) /\ Like(Tail(s), Tail(p))

RECURSIVE SortKeys(_)
\* the keys of a set in ascending order
SortKeys(S) ==
    IF S = {} THEN <<>>
    ELSE LET m == CHOOSE k \in S : \A j \in S \ {k} : StrLess(k, j)
         IN <<m>> \o SortKeys(S \ {m})

RECURSIVE Strip(_, _)
\* str.strip(ch)
Strip(s, ch) ==
    IF s = <<>> THEN s
    ELSE IF Head(s) = ch THEN Strip(Tail(s), ch)
    ELSE IF s[Len(s)] = ch THEN Strip(SubSeq(s, 1, Len(s) - 1), ch)
    ELSE s

\* scanner.py is_multipart_etag
is_multipart_etag(etag) ==
    LET clean == Strip(etag, "\"")
        dashes == {i \in 1..Len(clean) : clean[i] = "-"}
    IN  /\ dashes # {}
        /\ LET last == CHOOSE i \in dashes : \A j \in dashes : j <= i
               suffix == SubSeq(clean, last + 1, Len(clean))
           IN suffix # <<>> /\ \A i \in 1..Len(suffix) : suffix[i] \in Digits

----------------------------------------------------------------------------
(* db.py: the index *)

\* models.py ObjectInfo
ObjectInfo(key, size, etag, is_multipart, last_modified, sha256) ==
    [key |-> key, size |-> size, etag |-> etag, is_multipart |-> is_multipart,
     last_modified |-> last_modified, sha256 |-> sha256]

\* UpsertRow that replaces by delete-then-insert and loses the insert on a conflict
UpsertRow_ReplaceLost(tbl, o, now) ==
    IF o.key \in DOMAIN tbl
    THEN [k \in DOMAIN tbl \ {o.key} |-> tbl[k]]
    ELSE [k \in DOMAIN tbl \cup {o.key} |->
            IF k = o.key
            THEN [size |-> o.size, etag |-> o.etag, is_multipart |-> o.is_multipart,
                  sha256 |-> o.sha256, last_modified |-> o.last_modified,
                  scanned_at |-> now]
            ELSE tbl[k]]

\* UpsertRow whose DO UPDATE leaves the sha256 column out
UpsertRow_KeepDigest(tbl, o, now) ==
    IF o.key \in DOMAIN tbl
    THEN [tbl EXCEPT ![o.key] =
            [@ EXCEPT !.size = o.size, !.etag = o.etag, !.is_multipart = o.is_multipart,
                      !.last_modified = o.last_modified, !.scanned_at = now]]
    ELSE [k \in DOMAIN tbl \cup {o.key} |->
            IF k = o.key
            THEN [size |-> o.size, etag |-> o.etag, is_multipart |-> o.is_multipart,
                  sha256 |-> o.sha256, last_modified |-> o.last_modified,
                  scanned_at |-> now]
            ELSE tbl[k]]

\* one parameter set of the INSERT ... ON CONFLICT (key) DO UPDATE of upsert_objects
UpsertRow(tbl, o, now) ==
    IF o.key \in DOMAIN tbl
    THEN [tbl EXCEPT ![o.key] =
            [@ EXCEPT !.size = o.size, !.etag = o.etag, !.is_multipart = o.is_multipart,
                      !.sha256 = o.sha256, !.last_modified = o.last_modified,
                      !.scanned_at = now]]
    ELSE [k \in DOMAIN tbl \cup {o.key} |->
            IF k = o.key
            THEN [size |-> o.size, etag |-> o.etag, is_multipart |-> o.is_multipart,
                  sha256 |-> o.sha256, last_modified |-> o.last_modified,
                  scanned_at |-> now]
            ELSE tbl[k]]

RECURSIVE upsert_objects(_, _, _)
\* db.py upsert_objects: executemany runs the statement once per record, in order
upsert_objects(tbl, objs, now) ==
    IF objs = <<>> THEN tbl
    ELSE upsert_objects(UpsertRow(tbl, Head(objs), now), Tail(objs), now)

\* get_keys_with_prefix with the '%' left off the pattern: WHERE key LIKE prefix
get_keys_with_prefix_NoWildcard(tbl, prefix) ==
    [k \in {k \in DOMAIN tbl : Like(k, prefix)} |-> tbl[k].etag]

\* db.py get_keys_with_prefix: WHERE key LIKE prefix || '%'
get_keys_with_prefix(tbl, prefix) ==
    [k \in {k \in DOMAIN tbl : Like(k, prefix \o <<"%">>)} |-> tbl[k].etag]

\* db.py delete_objects (table objects)
delete_objects(tbl, keys) == [k \in DOMAIN tbl \ keys |-> tbl[k]]

\* delete_objects that leaves the table media_metadata alone
delete_media_metadata_Kept(media, keys) == media

\* db.py delete_objects (table media_metadata)
delete_media_metadata(media, keys) == [k \in DOMAIN media \ keys |-> media[k]]

\* db.py update_sha256: UPDATE objects SET sha256 = ? WHERE key = ?
update_sha256(tbl, key, sha256) ==
    IF key \in DOMAIN tbl THEN [tbl EXCEPT ![key].sha256 = sha256] ELSE tbl

\* the SELECT list key, size, etag, is_multipart, sha256, last_modified of one row
SelectRow(tbl, k) ==
    ObjectInfo(k, tbl[k].size, tbl[k].etag, tbl[k].is_multipart,
               tbl[k].last_modified, tbl[k].sha256)

\* the column of a selected row at SQL position key_index (0-based, as in _group_rows)
Column(o, key_index) ==
    CASE key_index = 0 -> o.key
      [] key_index = 1 -> <<o.size>>
      [] key_index = 2 -> o.etag
      [] key_index = 4 -> o.sha256

RECURSIVE RowLess(_, _, _)
\* a sorts before b under ORDER BY cols (SQL positions of the select list)
RowLess(a, b, cols) ==
    IF cols = <<>> THEN FALSE
    ELSE IF Column(a, Head(cols)) = Column(b, Head(cols)) THEN RowLess(a, b, Tail(cols))
    ELSE IF Head(cols) = 1 THEN a.size < b.size
    ELSE StrLess(Column(a, Head(cols)), Column(b, Head(cols)))

RECURSIVE OrderBy(_, _, _)
\* the rows of tbl with keys in K, ORDER BY cols
OrderBy(tbl, K, cols) ==
    IF K = {} THEN <<>>
    ELSE LET m == CHOOSE k \in K :
                    \A j \in K \ {k} : RowLess(SelectRow(tbl, k), SelectRow(tbl, j), cols)
         IN <<SelectRow(tbl, m)>> \o OrderBy(tbl, K \ {m}, cols)

RECURSIVE GroupInsert(_, _, _)
\* groups.setdefault(group_key, []).append(obj) on a dict kept in insertion order
GroupInsert(groups, o, key_index) ==
    IF groups = <<>> THEN << <<o>> >>
    ELSE IF Column(Head(groups)[1], key_index) = Column(o, key_index)
         THEN <<Append(Head(groups), o)>> \o Tail(groups)
         ELSE <<Head(groups)>> \o GroupInsert(Tail(groups), o, key_index)

RECURSIVE GroupAll(_, _, _)
GroupAll(groups, rows, key_index) ==
    IF rows = <<>> THEN groups
    ELSE GroupAll(GroupInsert(groups, Head(rows), key_index), Tail(rows), key_index)

\* db.py _group_rows
_group_rows(rows, key_index) ==
    SelectSeq(GroupAll(<<>>, rows, key_index), LAMBDA objs : Len(objs) > 1)

\* SELECT size FROM objects GROUP BY size HAVING count(*) > 1
SizeDups(tbl) ==
    {s \in {tbl[k].size : k \in DOMAIN tbl} :
        Cardinality({k \in DOMAIN tbl : tbl[k].size = s}) > 1}

\* db.py find_size_duplicates
find_size_duplicates(tbl) ==
    _group_rows(OrderBy(tbl, {k \in DOMAIN tbl : tbl[k].size \in SizeDups(tbl)}, <<1, 0>>), 1)

\* models.py DuplicateGroup
DuplicateGroup(fingerprint, size, objs) ==
    [fingerprint |-> fingerprint, size |-> size, objects |-> objs]

\* db.py find_etag_duplicates
find_etag_duplicates(tbl) ==
    LET joined == {k \in DOMAIN tbl : tbl[k].size \in SizeDups(tbl)}
        etags == {e \in {tbl[k].etag : k \in joined} :
                    Cardinality({k \in joined : tbl[k].etag = e}) > 1}
        rows == OrderBy(tbl, {k \in joined : tbl[k].etag \in etags}, <<2, 0>>)
        groups == _group_rows(rows, 2)
    IN [i \in 1..Len(groups) |->
            DuplicateGroup(groups[i][1].etag, groups[i][1].size, groups[i])]

\* find_multipart_candidates that selects only the unhashed multipart rows of a
\* candidate size instead of joining back to every row of that size
find_multipart_candidates_OnlyUnhashed(tbl) ==
    LET candidates ==
            {s \in {tbl[k].size : k \in {j \in DOMAIN tbl :
                                            tbl[j].is_multipart /\ tbl[j].sha256 = NULL}} :
                s \in SizeDups(tbl)}
    IN _group_rows(OrderBy(tbl, {k \in DOMAIN tbl : /\ tbl[k].size \in candidates
                                                     /\ tbl[k].is_multipart
                                                     /\ tbl[k].sha256 = NULL}, <<1, 0>>), 1)

\* db.py find_multipart_candidates
find_multipart_candidates(tbl) ==
    LET candidates ==
            {s \in {tbl[k].size : k \in {j \in DOMAIN tbl :
                                            tbl[j].is_multipart /\ tbl[j].sha256 = NULL}} :
                s \in SizeDups(tbl)}
    IN _group_rows(OrderBy(tbl, {k \in DOMAIN tbl : tbl[k].size \in candidates}, <<1, 0>>), 1)

\* db.py find_hash_duplicates
find_hash_duplicates(tbl) ==
    LET hashes == {h \in {tbl[k].sha256 : k \in {j \in DOMAIN tbl : tbl[j].sha256 # NULL}} :
                     Cardinality({k \in DOMAIN tbl : tbl[k].sha256 = h}) > 1}
        rows == OrderBy(tbl, {k \in DOMAIN tbl : tbl[k].sha256 \in hashes}, <<4, 0>>)
        groups == _group_rows(rows, 4)
    IN [i \in 1..Len(groups) |->
            DuplicateGroup(groups[i][1].sha256, groups[i][1].size, groups[i])]

\* db.py get_all_duplicates
get_all_duplicates(tbl) ==
    LET etag_groups == find_etag_duplicates(tbl)
        hash_groups == find_hash_duplicates(tbl)
        non_multipart ==
            SelectSeq(etag_groups,
                      LAMBDA g : ~ \E i \in 1..Len(g.objects) : g.objects[i].is_multipart)
    IN non_multipart \o hash_groups

----------------------------------------------------------------------------
(* The remote bucket *)

\* the keys of the remote objects and the prefixes scanned
ScanKeys == {<<"a", "_">>, <<"a", "b">>, <<"b">>}
Prefixes == {<<>>, <<"a">>, <<"a", "_">>}

\* a remote object: its bytes and what list_objects_v2 reports of it
Remote(body, etag, last_modified) ==
    [body |-> body, size |-> Len(body), etag |-> etag, last_modified |-> last_modified]

\* the objects a key can hold: a folder marker, a single-part upload and a
\* multipart upload of the same bytes
ObjectVersions ==
    { Remote(<<>>, <<"\"", "d", "\"">>, 1),
      Remote(<<"x">>, <<"\"", "a", "\"">>, 1),
      Remote(<<"x">>, <<"\"", "b", "-", "2", "\"">>, 2) }

\* hasher.py sha256_stream: the digest of a body (abbreviated; distinct bodies, distinct digests)
sha256_stream(body) ==
    CASE body = <<>> -> <<"e", "0">>
      [] body = <<"x">> -> <<"e", "1">>

\* list_objects_v2(Bucket, Prefix): the entries of the keys that start with Prefix, in key order
ListObjects(bkt, prefix) ==
    LET keys == SortKeys({k \in DOMAIN bkt : StartsWith(k, prefix)})
    IN [i \in 1..Len(keys) |->
            [key |-> keys[i], size |-> bkt[keys[i]].size, etag |-> bkt[keys[i]].etag,
             last_modified |-> bkt[keys[i]].last_modified]]

RECURSIVE Paginate(_)
\* the pages of a listing; an empty listing is one page without Contents
Paginate(entries) ==
    IF Len(entries) <= PageSize THEN <<entries>>
    ELSE <<SubSeq(entries, 1, PageSize)>> \o Paginate(SubSeq(entries, PageSize + 1, Len(entries)))

----------------------------------------------------------------------------
(* scanner.py scan_bucket *)

\* an index call as recorded in dbcalls
DbCall(op, pages_left) == [op |-> op, pages_left |-> pages_left]

\* ProcessEntry without the skip of scanner.py 76: every listed entry is staged
ProcessEntry_NoSkip(st, obj, now, pages_left) ==
    IF obj.size = 0 THEN st
    ELSE
      LET seen == [st EXCEPT !.seen_keys = @ \cup {obj.key}]
          is_update == obj.key \in DOMAIN st.existing_etags
          info == ObjectInfo(obj.key, obj.size, obj.etag, is_multipart_etag(obj.etag),
                             obj.last_modified, NULL)
          staged == [seen EXCEPT !.updated_count = IF is_update THEN @ + 1 ELSE @,
                                 !.new_count = IF is_update THEN @ ELSE @ + 1,
                                 !.batch = Append(@, info)]
      IN IF Len(staged.batch) >= BATCH_SIZE
         THEN [staged EXCEPT !.objects = upsert_objects(@, staged.batch, now),
                             !.calls = Append(@, DbCall("upsert_objects", pages_left)),
                             !.flushed = @ \o staged.batch,
                             !.batch = <<>>]
         ELSE staged

\* ProcessEntry with is_update taken from seen_keys instead of existing_etags: a
\* changed key is counted as new
ProcessEntry_UpdateAsNew(st, obj, now, pages_left) ==
    IF obj.size = 0 THEN st
    ELSE
      LET seen == [st EXCEPT !.seen_keys = @ \cup {obj.key}]
      IN IF obj.key \in DOMAIN st.existing_etags /\ st.existing_etags[obj.key] = obj.etag
         THEN seen
         ELSE
           LET is_update == obj.key \in st.seen_keys
               info == ObjectInfo(obj.key, obj.size, obj.etag, is_multipart_etag(obj.etag),
                                  obj.last_modified, NULL)
               staged == [seen EXCEPT !.updated_count = IF is_update THEN @ + 1 ELSE @,
                                      !.new_count = IF is_update THEN @ ELSE @ + 1,
                                      !.batch = Append(@, info)]
           IN IF Len(staged.batch) >= BATCH_SIZE
              THEN [staged EXCEPT !.objects = upsert_objects(@, staged.batch, now),
                                  !.calls = Append(@, DbCall("upsert_objects", pages_left)),
                                  !.flushed = @ \o staged.batch,
                                  !.batch = <<>>]
              ELSE staged

\* scanner.py 66-100: the body of the loop over the entries of a page.
\* st: the locals and the index; pages_left: pages not yet consumed, this one included
ProcessEntry(st, obj, now, pages_left) ==
    IF obj.size = 0 THEN st
    ELSE
      LET seen == [st EXCEPT !.seen_keys = @ \cup {obj.key}]
      IN IF obj.key \in DOMAIN st.existing_etags /\ st.existing_etags[obj.key] = obj.etag
         THEN seen
         ELSE
           LET is_update == obj.key \in DOMAIN st.existing_etags
               info == ObjectInfo(obj.key, obj.size, obj.etag, is_multipart_etag(obj.etag),
                                  obj.last_modified, NULL)
               staged == [seen EXCEPT !.updated_count = IF is_update THEN @ + 1 ELSE @,
                                      !.new_count = IF is_update THEN @ ELSE @ + 1,
                                      !.batch = Append(@, info)]
           IN IF Len(staged.batch) >= BATCH_SIZE
              THEN [staged EXCEPT !.objects = upsert_objects(@, staged.batch, now),
                                  !.calls = Append(@, DbCall("upsert_objects", pages_left)),
                                  !.flushed = @ \o staged.batch,
                                  !.batch = <<>>]
              ELSE staged

RECURSIVE ProcessPage(_, _, _, _)
\* scanner.py 66: for obj in page.get("Contents", [])
ProcessPage(st, page, now, pages_left) ==
    IF page = <<>> THEN st
    ELSE ProcessPage(ProcessEntry(st, Head(page), now, pages_left), Tail(page), now, pages_left)

\* FinishScan without the last flush of scanner.py 103-104
FinishScan_NoLastBatch(st, now) ==
    LET deleted_keys == {k \in DOMAIN st.existing_etags : k \notin st.seen_keys}
    IN IF deleted_keys # {}
       THEN [st EXCEPT !.objects = delete_objects(@, deleted_keys),
                       !.media = delete_media_metadata(@, deleted_keys),
                       !.calls = Append(@, DbCall("delete_objects", 0)),
                       !.deleted = Cardinality(deleted_keys)]
       ELSE [st EXCEPT !.deleted = 0]

\* FinishScan with the deletion moved before the last flush
FinishScan_DeleteFirst(st, now) ==
    LET deleted_keys == {k \in DOMAIN st.existing_etags : k \notin st.seen_keys}
        del == IF deleted_keys # {}
               THEN [st EXCEPT !.objects = delete_objects(@, deleted_keys),
                               !.media = delete_media_metadata(@, deleted_keys),
                               !.calls = Append(@, DbCall("delete_objects", 0)),
                               !.deleted = Cardinality(deleted_keys)]
               ELSE [st EXCEPT !.deleted = 0]
    IN IF st.batch # <<>>
       THEN [del EXCEPT !.objects = upsert_objects(@, st.batch, now),
                        !.calls = Append(@, DbCall("upsert_objects", 0)),
                        !.flushed = @ \o st.batch]
       ELSE del

\* scanner.py 102-115: after the loop over the pages
FinishScan(st, now) ==
    LET last == IF st.batch # <<>>
                THEN [st EXCEPT !.objects = upsert_objects(@, st.batch, now),
                                !.calls = Append(@, DbCall("upsert_objects", 0)),
                                !.flushed = @ \o st.batch]
                ELSE st
        deleted_keys == {k \in DOMAIN st.existing_etags : k \notin st.seen_keys}
    IN IF deleted_keys # {}
       THEN [last EXCEPT !.objects = delete_objects(@, deleted_keys),
                         !.media = delete_media_metadata(@, deleted_keys),
                         !.calls = Append(@, DbCall("delete_objects", 0)),
                         !.deleted = Cardinality(deleted_keys)]
       ELSE [last EXCEPT !.deleted = 0]

\* the locals of scan_bucket together with the index (tables objects and
\* media_metadata) and the call log
ScanState == [scan EXCEPT !.objects = objects, !.calls = dbcalls, !.media = media_metadata]

\* models.py ScanResult, with the observations the properties need
ScanResult(status, st, deleted) ==
    [status |-> status, prefix |-> st.prefix, new |-> st.new_count,
     updated |-> st.updated_count, deleted |-> deleted,
     before |-> st.before, after |-> st.objects, listing |-> st.listing,
     existing |-> st.existing_etags, flushed |-> st.flushed, prev |-> st.prev,
     media_before |-> st.media_before]

NoResult ==
    [status |-> "none", prefix |-> <<>>, new |-> 0, updated |-> 0, deleted |-> 0,
     before |-> <<>>, after |-> <<>>, listing |-> <<>>, existing |-> <<>>,
     flushed |-> <<>>, prev |-> <<>>, media_before |-> <<>>]

NoScan ==
    [prefix |-> <<>>, existing_etags |-> <<>>, new_count |-> 0, updated_count |-> 0,
     seen_keys |-> {}, batch |-> <<>>, pages |-> <<>>, objects |-> <<>>, calls |-> <<>>,
     deleted |-> 0, before |-> <<>>, listing |-> <<>>, flushed |-> <<>>, prev |-> <<>>,
     media |-> <<>>, media_before |-> <<>>]

\* scanner.py 46-53: scan_bucket up to the first page
ScanStart(prefix) ==
    /\ pc = "idle"
    /\ clock < MaxScans
    /\ clock' = clock + 1
    /\ pc' = "scanning"
    /\ scan' = [prefix |-> prefix,
                existing_etags |-> get_keys_with_prefix(objects, prefix),
                new_count |-> 0, updated_count |-> 0, seen_keys |-> {}, batch |-> <<>>,
                pages |-> Paginate(ListObjects(bucket, prefix)),
                objects |-> <<>>, calls |-> <<>>, deleted |-> 0,
                before |-> objects, listing |-> ListObjects(bucket, prefix),
                flushed |-> <<>>, prev |-> lastScan, media |-> <<>>,
                media_before |-> media_metadata]
    /\ dbcalls' = <<>>
    /\ lastScan' = <<>>
    /\ UNCHANGED <<bucket, objects, bucketOps, result, hash, db, files, media_metadata>>

\* scanner.py 65-100: one page of the listing
ScanPage ==
    /\ pc = "scanning"
    /\ scan.pages # <<>>
    /\ LET st == ProcessPage(ScanState, Head(scan.pages), clock, Len(scan.pages))
       IN /\ objects' = st.objects
          /\ dbcalls' = st.calls
          /\ scan' = [st EXCEPT !.pages = Tail(@), !.objects = <<>>, !.calls = <<>>,
                                !.media = <<>>]
    /\ UNCHANGED <<bucket, clock, bucketOps, pc, result, lastScan, hash, db, files, media_metadata>>

\* ListingError with the deletion run as cleanup (try/finally) when the listing fails
ListingError_Finally ==
    /\ pc = "scanning"
    /\ scan.pages # <<>>
    /\ pc' = "returning"
    /\ LET st == FinishScan(ScanState, clock)
       IN /\ objects' = st.objects
          /\ dbcalls' = st.calls
          /\ media_metadata' = st.media
          /\ result' = ScanResult("error", st, st.deleted)
    /\ UNCHANGED <<bucket, clock, bucketOps, scan, lastScan, hash, db, files>>

\* the paginator raises while fetching the next page: scan_bucket propagates the error
ListingError ==
    /\ pc = "scanning"
    /\ scan.pages # <<>>
    /\ pc' = "returning"
    /\ result' = ScanResult("error", ScanState, 0)
    /\ UNCHANGED <<bucket, objects, clock, bucketOps, scan, dbcalls, lastScan, hash, db, files, media_metadata>>

\* scanner.py 102-115: the listing is exhausted
ScanFinish ==
    /\ pc = "scanning"
    /\ scan.pages = <<>>
    /\ LET st == FinishScan(ScanState, clock)
       IN /\ objects' = st.objects
          /\ dbcalls' = st.calls
          /\ media_metadata' = st.media
          /\ result' = ScanResult("ok", st, st.deleted)
          /\ scan' = [st EXCEPT !.objects = <<>>, !.calls = <<>>, !.media = <<>>]
    /\ pc' = "returning"
    /\ lastScan' = <<scan.prefix>>
    /\ UNCHANGED <<bucket, clock, bucketOps, hash, db, files>>

\* scan_bucket returns or raises: its locals and its result go out of scope
ScanReturn ==
    /\ pc = "returning"
    /\ pc' = "idle"
    /\ scan' = NoScan
    /\ dbcalls' = <<>>
    /\ result' = NoResult
    /\ UNCHANGED <<bucket, objects, clock, bucketOps, lastScan, hash, db, files, media_metadata>>

----------------------------------------------------------------------------
(* hasher.py hash_multipart_candidates *)

RECURSIVE Flatten(_)
\* [obj for group in groups for obj in group]
Flatten(groups) == IF groups = <<>> THEN <<>> ELSE Head(groups) \o Flatten(Tail(groups))

\* the locals of hash_multipart_candidates, with the observations the properties
\* need: the index when the pass started (before), the keys for which a GET was
\* issued (gets), how the pass ended (status) and how the pass it directly
\* follows ended (prev)
NoHash == [all_objects |-> <<>>, hashed |-> 0, before |-> <<>>, gets |-> <<>>,
           status |-> "none", prev |-> "none"]

\* hasher.py 46-52, called when no run is in progress or right after a pass
HashStart ==
    /\ pc \in {"idle", "hashed"}
    /\ LET groups == find_multipart_candidates(objects)
       IN IF groups = <<>>
          THEN /\ hash' = [NoHash EXCEPT !.before = objects, !.status = "ok",
                                         !.prev = hash.status]
               /\ pc' = "hashed"
          ELSE /\ hash' = [all_objects |-> Flatten(groups), hashed |-> 0,
                           before |-> objects, gets |-> <<>>, status |-> "running",
                           prev |-> hash.status]
               /\ pc' = "hashing"
    /\ UNCHANGED <<bucket, objects, clock, bucketOps, scan, dbcalls, result, lastScan, db, files, media_metadata>>

\* HashStep that does not store the digest
HashStep_NoWrite ==
    /\ pc = "hashing"
    /\ hash.all_objects # <<>>
    /\ LET obj == Head(hash.all_objects)
       IN /\ obj.key \in DOMAIN bucket
          /\ hash' = [hash EXCEPT !.all_objects = Tail(@), !.hashed = @ + 1,
                                  !.gets = Append(@, obj.key)]
    /\ UNCHANGED <<bucket, objects, clock, bucketOps, pc, scan, dbcalls, result, lastScan, db, files, media_metadata>>

\* HashStep that collects the digests and leaves the writes to the end of the pass
HashStep_WriteAtEnd ==
    /\ pc = "hashing"
    /\ hash.all_objects # <<>>
    /\ LET obj == Head(hash.all_objects)
       IN /\ obj.key \in DOMAIN bucket
          /\ hash' = [hash EXCEPT !.all_objects = Tail(@), !.hashed = @ + 1,
                                  !.gets = Append(@, obj.key)]
          /\ objects' =
                IF Tail(hash.all_objects) = <<>>
                THEN [k \in DOMAIN objects |->
                        IF \E i \in 1..Len(hash'.gets) : hash'.gets[i] = k
                        THEN [objects[k] EXCEPT !.sha256 = sha256_stream(bucket[k].body)]
                        ELSE objects[k]]
                ELSE objects
    /\ UNCHANGED <<bucket, clock, bucketOps, pc, scan, dbcalls, result, lastScan, db, files, media_metadata>>

\* hasher.py 67-72: GET the next object, hash its body, store the digest
HashStep ==
    /\ pc = "hashing"
    /\ hash.all_objects # <<>>
    /\ LET obj == Head(hash.all_objects)
       IN /\ obj.key \in DOMAIN bucket
          /\ objects' = update_sha256(objects, obj.key, sha256_stream(bucket[obj.key].body))
          /\ hash' = [hash EXCEPT !.all_objects = Tail(@), !.hashed = @ + 1,
                                  !.gets = Append(@, obj.key)]
    /\ UNCHANGED <<bucket, clock, bucketOps, pc, scan, dbcalls, result, lastScan, db, files, media_metadata>>

\* hasher.py 69: get_object raises (no such key, transport error); the error
\* propagates out of hash_multipart_candidates
HashFail ==
    /\ pc = "hashing"
    /\ hash.all_objects # <<>>
    /\ pc' = "hashed"
    /\ hash' = [hash EXCEPT !.status = "error"]
    /\ UNCHANGED <<bucket, objects, clock, bucketOps, scan, dbcalls, result, lastScan, db, files, media_metadata>>

\* hasher.py 74
HashDone ==
    /\ pc = "hashing"
    /\ hash.all_objects = <<>>
    /\ pc' = "hashed"
    /\ hash' = [hash EXCEPT !.status = "ok"]
    /\ UNCHANGED <<bucket, objects, clock, bucketOps, scan, dbcalls, result, lastScan, db, files, media_metadata>>

\* hash_multipart_candidates returns or raises: its locals go out of scope
HashReturn ==
    /\ pc = "hashed"
    /\ pc' = "idle"
    /\ hash' = NoHash
    /\ UNCHANGED <<bucket, objects, clock, bucketOps, scan, dbcalls, result, lastScan, db, files, media_metadata>>

----------------------------------------------------------------------------
(* The environment: the bucket changes between runs *)

PutObject(k, v) ==
    /\ pc = "idle"
    /\ bucketOps < MaxBucketOps
    /\ IF k \in DOMAIN bucket THEN bucket[k] # v ELSE TRUE
    /\ bucket' = [j \in DOMAIN bucket \cup {k} |-> IF j = k THEN v ELSE bucket[j]]
    /\ bucketOps' = bucketOps + 1
    /\ lastScan' = <<>>
    /\ UNCHANGED <<objects, clock, pc, scan, dbcalls, result, hash, db, files, media_metadata>>

DeleteObject(k) ==
    /\ pc = "idle"
    /\ bucketOps < MaxBucketOps
    /\ k \in DOMAIN bucket
    /\ bucket' = [j \in DOMAIN bucket \ {k} |-> bucket[j]]
    /\ bucketOps' = bucketOps + 1
    /\ lastScan' = <<>>
    /\ UNCHANGED <<objects, clock, pc, scan, dbcalls, result, hash, db, files, media_metadata>>

----------------------------------------------------------------------------
(* Spec: scans and Pass 3 over any bucket and its changes, from an empty index *)

NoDb == [op |-> "none"]

\* every content of the bucket over ScanKeys
Buckets ==
    UNION {[K -> ObjectVersions] : K \in SUBSET ScanKeys}

Init ==
    /\ bucket \in Buckets
    /\ objects = <<>>
    /\ clock = 0
    /\ bucketOps = 0
    /\ pc = "idle"
    /\ scan = NoScan
    /\ dbcalls = <<>>
    /\ result = NoResult
    /\ lastScan = <<>>
    /\ hash = NoHash
    /\ db = NoDb
    /\ files = <<>>
    /\ media_metadata = <<>>

Next ==
    \/ \E p \in Prefixes : ScanStart(p)
    \/ ScanPage
    \/ ListingError
    \/ ScanFinish
    \/ ScanReturn
    \/ HashStart
    \/ HashStep
    \/ HashFail
    \/ HashDone
    \/ HashReturn
    \/ \E k \in ScanKeys, v \in ObjectVersions : PutObject(k, v)
    \/ \E k \in ScanKeys : DeleteObject(k)

Spec == Init /\ [][Next]_vars

----------------------------------------------------------------------------
(* Properties of scan_bucket, stated where it returns (pc = "returning") *)

\* the keys the listing reported with a size greater than 0
ListedKeys(listing) == {listing[i].key : i \in {j \in 1..Len(listing) : listing[j].size > 0}}

\* the listed entry of key k
ListedEntry(listing, k) == listing[CHOOSE i \in 1..Len(listing) : listing[i].key = k]

\* C1: scan_bucket(bucket, prefix=p) never deletes an index row whose key does not
\* start with p: every such row present before the scan is present and unchanged
\* after it.
C1_RowsOutsidePrefixKept ==
    pc = "returning" =>
        \A k \in DOMAIN result.before :
            ~ StartsWith(k, result.prefix) =>
                k \in DOMAIN result.after /\ result.after[k] = result.before[k]

\* C2 as stated: whatever the prefix, if the previous scan completed and the bucket
\* has not changed since, scan_bucket returns new = updated = deleted = 0 and
\* leaves the index rows unchanged.
C2_RescanAnyPrefix ==
    (pc = "returning" /\ result.status = "ok" /\ result.prev # <<>>) =>
        /\ result.new = 0 /\ result.updated = 0 /\ result.deleted = 0
        /\ result.after = result.before

\* C2 amended: if the previous call of scan_bucket completed with the same prefix
\* and the bucket has not changed since, scan_bucket returns new = updated =
\* deleted = 0 and leaves the index rows unchanged.
C2_RescanSamePrefix ==
    (pc = "returning" /\ result.status = "ok" /\ result.prev = <<result.prefix>>) =>
        /\ result.new = 0 /\ result.updated = 0 /\ result.deleted = 0
        /\ result.after = result.before

\* a repeated scan over rows it indexed before, some of them hashed in between
C2_Witness ==
    /\ pc = "returning" /\ result.status = "ok" /\ result.prev = <<result.prefix>>
    /\ Cardinality(ListedKeys(result.listing)) >= 2
    /\ \E k \in DOMAIN result.before : result.before[k].sha256 # NULL

\* C3: after a completed scan the index keys that start with the prefix are exactly
\* the listed keys of size > 0, each with the etag the listing returned.
C3_IndexMatchesListing ==
    (pc = "returning" /\ result.status = "ok") =>
        /\ {k \in DOMAIN result.after : StartsWith(k, result.prefix)}
              = ListedKeys(result.listing)
        /\ \A k \in ListedKeys(result.listing) :
              result.after[k].etag = ListedEntry(result.listing, k).etag

\* a completed scan that added a key, rewrote one and removed one, past a folder marker
C3_Witness ==
    /\ pc = "returning" /\ result.status = "ok"
    /\ result.new >= 1 /\ result.deleted >= 1
    /\ \E i \in 1..Len(result.listing) : result.listing[i].size = 0
    /\ \E k \in DOMAIN result.before :
          StartsWith(k, result.prefix) /\ k \in ListedKeys(result.listing)
          /\ result.before[k].etag # ListedEntry(result.listing, k).etag

\* C4: new counts the listed keys of size > 0 absent from the pre-loaded map,
\* updated those present with another etag, deleted the keys of the map not seen;
\* a listed key whose etag matches the map counts in none.
C4_Counters ==
    (pc = "returning" /\ result.status = "ok") =>
        LET listed == ListedKeys(result.listing)
            existing == result.existing
        IN /\ result.new = Cardinality(listed \ DOMAIN existing)
           /\ result.updated =
                Cardinality({k \in listed \cap DOMAIN existing :
                                existing[k] # ListedEntry(result.listing, k).etag})
           /\ result.deleted = Cardinality(DOMAIN existing \ listed)
           /\ result.new + result.updated + result.deleted
                + Cardinality({k \in listed \cap DOMAIN existing :
                                existing[k] = ListedEntry(result.listing, k).etag})
                = Cardinality(listed \cup DOMAIN existing)

\* one scan with a new, an updated and a deleted key
C4_Witness ==
    /\ pc = "returning" /\ result.status = "ok"
    /\ result.new = 1 /\ result.updated = 1 /\ result.deleted = 1

\* C5: a listed entry whose key is indexed with the same etag causes no write: the
\* row (size, etag, is_multipart, sha256, last_modified, scanned_at) is after the
\* scan what it was before.
C5_UnchangedRowNotWritten ==
    pc = "returning" =>
        \A i \in 1..Len(result.listing) :
            LET k == result.listing[i].key
            IN (k \in DOMAIN result.before /\ result.before[k].etag = result.listing[i].etag)
                  => (k \in DOMAIN result.after /\ result.after[k] = result.before[k])

\* a scan that wrote another row and met an unchanged row carrying a digest of Pass 3
C5_Witness ==
    /\ pc = "returning" /\ result.status = "ok" /\ result.new + result.updated >= 1
    /\ \E i \in 1..Len(result.listing) :
          LET k == result.listing[i].key
          IN /\ k \in DOMAIN result.before
             /\ result.before[k].etag = result.listing[i].etag
             /\ result.before[k].sha256 # NULL
             /\ result.before[k].scanned_at < clock

\* C6: within one scan_bucket run no upsert_objects call follows a delete_objects
\* call, delete_objects is called at most once, and only once the listing is
\* exhausted.
C6_UpsertThenDelete ==
    /\ \A i, j \in 1..Len(dbcalls) :
          (i < j /\ dbcalls[i].op = "delete_objects") => dbcalls[j].op # "upsert_objects"
    /\ Cardinality({i \in 1..Len(dbcalls) : dbcalls[i].op = "delete_objects"}) <= 1
    /\ \A i \in 1..Len(dbcalls) :
          dbcalls[i].op = "delete_objects" => (dbcalls[i].pages_left = 0 /\ scan.pages = <<>>)

\* a run that flushed a batch mid-listing and deleted a vanished key at the end
C6_Witness ==
    /\ pc = "returning" /\ result.status = "ok"
    /\ Len(dbcalls) = 2
    /\ dbcalls[1].op = "upsert_objects" /\ dbcalls[1].pages_left > 0
    /\ dbcalls[2].op = "delete_objects"

\* C7: if the listing raises before it is exhausted, scan_bucket deletes no index
\* row, and the rows of the batches flushed before the error are in the index.
C7_ErrorDeletesNothing ==
    (pc = "returning" /\ result.status = "error") =>
        /\ DOMAIN result.before \subseteq DOMAIN result.after
        /\ \A i \in 1..Len(dbcalls) : dbcalls[i].op # "delete_objects"
        /\ \A i \in 1..Len(result.flushed) :
              LET o == result.flushed[i]
              IN /\ o.key \in DOMAIN result.after
                 /\ result.after[o.key].etag = o.etag
                 /\ result.after[o.key].size = o.size

\* a listing that failed after a batch was flushed, over an index holding a row the
\* listing had not reached
C7_Witness ==
    /\ pc = "returning" /\ result.status = "error"
    /\ result.flushed # <<>>
    /\ \E k \in DOMAIN result.existing : k \notin scan.seen_keys

----------------------------------------------------------------------------
(* SpecDb: the index API called directly, in any order, from an empty index *)

DbKeys == {<<"a">>, <<"b">>, <<"c">>, <<"d">>}
DbSizes == {1, 2}
DbEtags == {<<"a">>, <<"b", "-", "2">>}
DbDigests == {<<"e", "1">>}

\* the records upsert_objects is called with
DbRecords(K) ==
    {ObjectInfo(k, sz, e, m, 1, h) :
        k \in K, sz \in DbSizes, e \in DbEtags, m \in BOOLEAN, h \in {NULL} \cup DbDigests}

\* upsert_objects(conn, [o])
DbUpsert(o) ==
    /\ pc = "idle"
    /\ objects' = upsert_objects(objects, <<o>>, clock)
    /\ UNCHANGED <<bucket, clock, bucketOps, pc, scan, dbcalls, result, lastScan, hash, db, files, media_metadata>>

\* delete_objects(conn, keys)
DbDelete(keys) ==
    /\ pc = "idle"
    /\ keys \cap DOMAIN objects # {}
    /\ objects' = delete_objects(objects, keys)
    /\ UNCHANGED <<bucket, clock, bucketOps, pc, scan, dbcalls, result, lastScan, hash, db, files, media_metadata>>

\* update_sha256(conn, key, sha256)
DbUpdateSha256(key, sha256) ==
    /\ pc = "idle"
    /\ objects' = update_sha256(objects, key, sha256)
    /\ UNCHANGED <<bucket, clock, bucketOps, pc, scan, dbcalls, result, lastScan, hash, db, files, media_metadata>>

InitDb ==
    /\ bucket = <<>>
    /\ objects = <<>>
    /\ clock = 0
    /\ bucketOps = 0
    /\ pc = "idle"
    /\ scan = NoScan
    /\ dbcalls = <<>>
    /\ result = NoResult
    /\ lastScan = <<>>
    /\ hash = NoHash
    /\ db = NoDb
    /\ files = <<>>
    /\ media_metadata = <<>>

NextDb ==
    \/ \E o \in DbRecords(DbKeys) : DbUpsert(o)
    \/ \E keys \in SUBSET DbKeys : DbDelete(keys)
    \/ \E key \in DbKeys, sha256 \in DbDigests : DbUpdateSha256(key, sha256)

SpecDb == InitDb /\ [][NextDb]_vars

----------------------------------------------------------------------------
(* SpecUpsert: upsert_objects(B) called twice on any index over two keys *)

\* longest batch
MaxBatchLen == 2

UpsertKeys == {<<"a">>, <<"b">>}

\* the records of the batches: as scan_bucket builds them (is_multipart derived from
\* the etag), some carrying a digest
UpsertRecords(K) ==
    {o \in DbRecords(K) : /\ o.is_multipart = is_multipart_etag(o.etag)
                          /\ o.sha256 # NULL => o.size = 1}

\* the row of table objects a record leaves
RowOf(o, now) ==
    [size |-> o.size, etag |-> o.etag, is_multipart |-> o.is_multipart,
     sha256 |-> o.sha256, last_modified |-> o.last_modified, scanned_at |-> now]

\* every index over the keys K
Indexes(K) ==
    UNION {[S -> {RowOf(o, 0) : o \in UpsertRecords(K)}] : S \in SUBSET K}

\* every batch of at most MaxBatchLen records
Batches(K) == UNION {[1..n -> UpsertRecords(K)] : n \in 1..MaxBatchLen}

\* what the queries of db.py return: the rows without scanned_at, and the groups
Observe(tbl) ==
    [rows |-> [k \in DOMAIN tbl |-> SelectRow(tbl, k)],
     keys_with_prefix |-> get_keys_with_prefix(tbl, <<>>),
     size_duplicates |-> find_size_duplicates(tbl),
     etag_duplicates |-> find_etag_duplicates(tbl),
     multipart_candidates |-> find_multipart_candidates(tbl),
     hash_duplicates |-> find_hash_duplicates(tbl),
     all_duplicates |-> get_all_duplicates(tbl)]

\* the first upsert_objects(conn, B)
UpsertOnce(B) ==
    /\ pc = "idle"
    /\ clock' = clock + 1
    /\ objects' = upsert_objects(objects, B, clock')
    /\ db' = [op |-> "upsert_objects", batch |-> B, before |-> objects, once |-> objects']
    /\ pc' = "upserted"
    /\ UNCHANGED <<bucket, bucketOps, scan, dbcalls, result, lastScan, hash, files, media_metadata>>

\* the second upsert_objects(conn, B), later
UpsertAgain ==
    /\ pc = "upserted"
    /\ clock' = clock + 1
    /\ objects' = upsert_objects(objects, db.batch, clock')
    /\ pc' = "again"
    /\ UNCHANGED <<bucket, bucketOps, scan, dbcalls, result, lastScan, hash, db, files, media_metadata>>

InitUpsert ==
    /\ bucket = <<>>
    /\ objects \in Indexes(UpsertKeys)
    /\ clock = 0
    /\ bucketOps = 0
    /\ pc = "idle"
    /\ scan = NoScan
    /\ dbcalls = <<>>
    /\ result = NoResult
    /\ lastScan = <<>>
    /\ hash = NoHash
    /\ db = NoDb
    /\ files = <<>>
    /\ media_metadata = <<>>

NextUpsert ==
    \/ \E B \in Batches(UpsertKeys) : UpsertOnce(B)
    \/ UpsertAgain

SpecUpsert == InitUpsert /\ [][NextUpsert]_vars

----------------------------------------------------------------------------
(* Properties of the index *)

\* C8: upsert_objects(B); upsert_objects(B) leaves every index query (the rows but
\* for scanned_at, and the duplicate queries) as a single upsert_objects(B) does.
C8_UpsertIdempotent ==
    pc = "again" => Observe(objects) = Observe(db.once)

\* a batch that names one key twice with different etags, over an index that held
\* that key; the second call rewrote scanned_at
C8_Witness ==
    /\ pc = "again"
    /\ Len(db.batch) = 2
    /\ db.batch[1].key = db.batch[2].key /\ db.batch[1].etag # db.batch[2].etag
    /\ db.batch[1].key \in DOMAIN db.before
    /\ db.before[db.batch[1].key].etag # db.batch[2].etag
    /\ objects # db.once

\* C9: in every group of find_etag_duplicates all members have the same etag and
\* the same size.
C9_EtagGroupsShareSize ==
    LET groups == find_etag_duplicates(objects)
    IN \A i \in 1..Len(groups) :
          \A m, n \in 1..Len(groups[i].objects) :
              /\ groups[i].objects[m].etag = groups[i].objects[n].etag
              /\ groups[i].objects[m].size = groups[i].objects[n].size

\* the groups of a list of groups, each as the set of its members
GroupSets(groups) ==
    {{groups[i][m] : m \in 1..Len(groups[i])} : i \in 1..Len(groups)}

\* C10: find_multipart_candidates returns exactly the same-size groups of at least
\* 2 records holding a record with is_multipart and no sha256, each with every
\* record of that size.
C10_MultipartCandidates ==
    LET groups == find_multipart_candidates(objects)
        ofSize(sz) == {k \in DOMAIN objects : objects[k].size = sz}
        wanted == {sz \in {objects[k].size : k \in DOMAIN objects} :
                      /\ Cardinality(ofSize(sz)) >= 2
                      /\ \E k \in ofSize(sz) :
                            objects[k].is_multipart /\ objects[k].sha256 = NULL}
    IN /\ GroupSets(groups) = {{SelectRow(objects, k) : k \in ofSize(sz)} : sz \in wanted}
       /\ Len(groups) = Cardinality(wanted)
       /\ \A i \in 1..Len(groups) : Len(groups[i]) = Cardinality(ofSize(groups[i][1].size))

\* an index where one size yields a group of a single-part record, a hashed and
\* an unhashed multipart record, and another size holds hashed multipart records only
C10_Witness ==
    /\ pc = "idle" /\ DOMAIN objects = DbKeys
    /\ Len(find_multipart_candidates(objects)) = 1
    /\ Len(find_multipart_candidates(objects)[1]) = 3
    /\ \E k \in DOMAIN objects : objects[k].size = 1 /\ ~ objects[k].is_multipart
    /\ \E k \in DOMAIN objects :
          objects[k].size = 1 /\ objects[k].is_multipart /\ objects[k].sha256 # NULL
    /\ \E k \in DOMAIN objects :
          objects[k].size = 2 /\ objects[k].is_multipart /\ objects[k].sha256 # NULL

----------------------------------------------------------------------------
(* Properties of get_all_duplicates and of Pass 3 over the indexes that scans *)
(* and Pass 3 produce (Spec)                                                  *)

\* the keys of the members of a group
GroupKeys(g) == {g.objects[i].key : i \in 1..Len(g.objects)}

\* C11: in every index state reachable through scans and Pass 3, no key belongs to
\* more than one group returned by get_all_duplicates.
C11_GroupsDisjoint ==
    LET groups == get_all_duplicates(objects)
    IN \A i, j \in 1..Len(groups) :
            i # j => GroupKeys(groups[i]) \cap GroupKeys(groups[j]) = {}

\* the keys for which the running (or just ended) pass issued a GET
GetKeys == {hash.gets[i] : i \in 1..Len(hash.gets)}

\* C12: hash_multipart_candidates never issues a GET for (and so never rewrites the
\* sha256 of) a record whose sha256 was already set when the pass started.
C12_NoGetForHashedRecord ==
    pc \in {"hashing", "hashed"} =>
        \A k \in GetKeys : hash.before[k].sha256 = NULL

\* C13: at every point of a pass, and in particular when the GET of the k-th
\* candidate fails and the pass aborts with an error, the digest of each candidate
\* processed so far is stored in the index, and every other row, as well as every
\* other column of the processed rows, is as it was when the pass started.
C13_DigestsStoredBeforeNextGet ==
    pc \in {"hashing", "hashed"} =>
        /\ DOMAIN objects = DOMAIN hash.before
        /\ \A k \in GetKeys :
                /\ objects[k].sha256 = sha256_stream(bucket[k].body)
                /\ objects[k].sha256 # NULL
                /\ objects[k] = [hash.before[k] EXCEPT !.sha256 = objects[k].sha256]
        /\ \A k \in DOMAIN objects \ GetKeys : objects[k] = hash.before[k]
        /\ (hash.status = "error" => hash.all_objects # <<>>)

\* the GET of the second candidate failed: the pass ended with an error, the digest
\* of the first candidate is new in the index and a candidate is left without one
C13_Witness ==
    /\ pc = "hashed"
    /\ hash.status = "error"
    /\ Len(hash.gets) = 1
    /\ hash.before[hash.gets[1]].sha256 = NULL
    /\ objects[hash.gets[1]].sha256 # NULL
    /\ \E i \in 1..Len(hash.all_objects) : objects[hash.all_objects[i].key].sha256 = NULL

----------------------------------------------------------------------------
(* SpecRuns: runs of the scan command (cli.py scan: scan_bucket followed by  *)
(* hash_multipart_candidates), each completing without error, over any bucket *)
(* and its changes between runs                                               *)

\* cli.py 56-77: scan_bucket has returned without error and the command goes on
\* with hash_multipart_candidates
CliHash ==
    /\ pc = "returning"
    /\ result.status = "ok"
    /\ scan' = NoScan
    /\ dbcalls' = <<>>
    /\ result' = NoResult
    /\ LET groups == find_multipart_candidates(objects)
       IN IF groups = <<>>
          THEN /\ hash' = [NoHash EXCEPT !.before = objects, !.status = "ok"]
               /\ pc' = "hashed"
          ELSE /\ hash' = [all_objects |-> Flatten(groups), hashed |-> 0,
                           before |-> objects, gets |-> <<>>, status |-> "running",
                           prev |-> "none"]
               /\ pc' = "hashing"
    /\ UNCHANGED <<bucket, objects, clock, bucketOps, lastScan, db, files, media_metadata>>

NextRuns ==
    \/ \E p \in Prefixes : ScanStart(p)
    \/ ScanPage
    \/ ScanFinish
    \/ CliHash
    \/ HashStep
    \/ HashDone
    \/ HashReturn
    \/ \E k \in ScanKeys, v \in ObjectVersions : PutObject(k, v)
    \/ \E k \in ScanKeys : DeleteObject(k)

SpecRuns == Init /\ [][NextRuns]_vars

\* the row of k describes the object the bucket holds under k
RowCurrent(k) ==
    /\ k \in DOMAIN objects
    /\ k \in DOMAIN bucket
    /\ objects[k].etag = bucket[k].etag
    /\ objects[k].size = bucket[k].size

\* C14: when a run has completed (all runs so far completed without error), if the
\* index holds a multipart object and another object of the same size with
\* identical bytes, both have the same non-null sha256 and appear together in one
\* group of get_all_duplicates.
C14_MultipartTwinGrouped ==
    (pc = "hashed" /\ hash.status = "ok") =>
        \A k1, k2 \in DOMAIN objects :
            ( /\ k1 # k2
              /\ RowCurrent(k1) /\ RowCurrent(k2)
              /\ objects[k1].is_multipart
              /\ objects[k1].size = objects[k2].size
              /\ bucket[k1].body = bucket[k2].body )
            => /\ objects[k1].sha256 # NULL
               /\ objects[k1].sha256 = objects[k2].sha256
               /\ LET groups == get_all_duplicates(objects)
                  IN \E i \in 1..Len(groups) : {k1, k2} \subseteq GroupKeys(groups[i])

----------------------------------------------------------------------------
(* normalizer.py name_quality_score and script_generator.py _select_to_delete *)

\* the index of the last occurrence of ch in s, 0 when there is none (str.rfind + 1)
RFind(s, ch) ==
    LET at == {i \in 1..Len(s) : s[i] = ch}
    IN IF at = {} THEN 0 ELSE CHOOSE i \in at : \A j \in at : j <= i

\* posixpath.basename
basename(p) == SubSeq(p, RFind(p, "/") + 1, Len(p))

\* posixpath.splitext: <<root, ext>>; leading dots of the file name start no extension
splitext(p) ==
    LET sepIndex == RFind(p, "/")
        dotIndex == RFind(p, ".")
    IN IF dotIndex > sepIndex /\ \E i \in (sepIndex + 1)..(dotIndex - 1) : p[i] # "."
       THEN <<SubSeq(p, 1, dotIndex - 1), SubSeq(p, dotIndex, Len(p))>>
       ELSE <<p, <<>> >>

\* str.lower on the characters used
Lower(s) ==
    [i \in 1..Len(s) |->
        CASE s[i] = "A" -> "a"
          [] s[i] = "C" -> "c"
          [] s[i] = "A~" -> "a~"
          [] OTHER -> s[i]]

\* str.endswith
EndsWith(s, t) == Len(t) <= Len(s) /\ SubSeq(s, Len(s) - Len(t) + 1, Len(s)) = t

\* re: <ch>\d+$ matches at position i of s
DigitsToEnd(s, i, ch) ==
    /\ s[i] = ch
    /\ i < Len(s)
    /\ \A j \in (i + 1)..Len(s) : s[j] \in Digits

\* re: -\s*<word>$ matches at position i of s
DashWordToEnd(s, i, word) ==
    /\ s[i] = "-"
    /\ EndsWith(s, word)
    /\ Len(s) - Len(word) >= i
    /\ \A j \in (i + 1)..(Len(s) - Len(word)) : s[j] = " "

\* normalizer.py _has_copy_suffix: some pattern of _COPY_SUFFIX_PATTERNS matches
_has_copy_suffix(stem) ==
    LET low == Lower(stem)
    IN \/ /\ stem # <<>>
          /\ stem[Len(stem)] = ")"
          /\ \E i \in 1..(Len(stem) - 1) :
                DigitsToEnd(SubSeq(stem, 1, Len(stem) - 1), i, "(")
       \/ \E i \in 1..Len(low) : DashWordToEnd(low, i, <<"c", "o", "p", "i", "e">>)
       \/ \E i \in 1..Len(low) : DashWordToEnd(low, i, <<"c", "o", "p", "y">>)
       \/ EndsWith(low, <<"_", "c", "o", "p", "y">>)
       \/ EndsWith(low, <<" ", "c", "o", "p", "y">>)
       \/ \E i \in 1..Len(stem) : DigitsToEnd(stem, i, "_")

\* _MOJIBAKE_PATTERN.search on the characters used: "A~" followed by "(c)" or " "
Mojibake(stem) ==
    \E i \in 1..(Len(stem) - 1) : stem[i] = "A~" /\ stem[i + 1] \in {"(c)", " "}

\* normalizer.py name_quality_score
name_quality_score(key) ==
    LET stem == splitext(basename(key))[1]
    IN (IF Mojibake(stem) THEN 10 ELSE 0)
       + (IF _has_copy_suffix(stem) THEN 5 ELSE 0)
       + (IF stem # Strip(stem, " ") THEN 2 ELSE 0)
       + (IF \E i \in 1..(Len(stem) - 1) : stem[i] = " " /\ stem[i + 1] = " " THEN 1 ELSE 0)

\* script_generator.py VALID_CRITERIA
VALID_CRITERIA == {"shortest", "oldest", "newest", "cleanest"}

\* script_generator.py KEEP_CRITERIA: the sort key of an object under a criterion
KEEP_CRITERIA(c, o) ==
    CASE c = "shortest" -> Len(basename(o.key))
      [] c = "oldest" -> o.last_modified
      [] c = "newest" -> 0 - o.last_modified
      [] c = "cleanest" -> name_quality_score(o.key)

\* script_generator.py _build_sort_key: the tuple of the per-criterion keys
_build_sort_key(criteria, o) == [i \in 1..Len(criteria) |-> KEEP_CRITERIA(criteria[i], o)]

RECURSIVE TupleLess(_, _)
\* Python order of two tuples of numbers of the same length
TupleLess(a, b) ==
    IF a = <<>> THEN FALSE
    ELSE IF Head(a) = Head(b) THEN TupleLess(Tail(a), Tail(b))
    ELSE Head(a) < Head(b)

\* min(objs, key=...): the first member no other member is smaller than
Min(objs, criteria) ==
    LET least == {i \in 1..Len(objs) :
                    \A j \in 1..Len(objs) :
                        ~ TupleLess(_build_sort_key(criteria, objs[j]),
                                    _build_sort_key(criteria, objs[i]))}
    IN objs[CHOOSE i \in least : \A j \in least : i <= j]

\* _select_to_delete whose deletion list leaves out the members that tie with the keeper
_select_to_delete_TiesLeftOut(group, criteria) ==
    LET keeper == Min(group.objects, criteria)
    IN <<keeper,
         SelectSeq(group.objects,
                   LAMBDA o : _build_sort_key(criteria, o) # _build_sort_key(criteria, keeper))>>

\* _select_to_delete that takes the last of the smallest members
_select_to_delete_LastMin(group, criteria) ==
    LET objs == group.objects
        least == {i \in 1..Len(objs) :
                    \A j \in 1..Len(objs) :
                        ~ TupleLess(_build_sort_key(criteria, objs[j]),
                                    _build_sort_key(criteria, objs[i]))}
        keeper == objs[CHOOSE i \in least : \A j \in least : j <= i]
    IN <<keeper, SelectSeq(objs, LAMBDA o : o.key # keeper.key)>>

\* _select_to_delete whose deletion list holds every member, the keeper included
_select_to_delete_KeeperListed(group, criteria) ==
    <<Min(group.objects, criteria), group.objects>>

\* script_generator.py _select_to_delete: <<keeper, to_delete>>
_select_to_delete(group, criteria) ==
    LET keeper == Min(group.objects, criteria)
    IN <<keeper, SelectSeq(group.objects, LAMBDA o : o.key # keeper.key)>>

----------------------------------------------------------------------------
(* SpecSelect: _select_to_delete applied to any group and any list of criteria *)

\* members of a group
MaxGroupLen == 3

\* criteria in a retention policy
MaxCriteria == 2

\* keys of the members: two plain names of the same length, a copy in a
\* directory and a name with a broken encoding
SelectKeys == {<<"b">>, <<"a">>, <<"d", "/", "a", "_", "1">>, <<"A~", "(c)">>}

\* the sequences over S of length 1..n
SeqsUpTo(S, n) == UNION {[1..m -> S] : m \in 1..n}

\* the groups: up to MaxGroupLen members with distinct keys, in any order
SelectGroups ==
    {DuplicateGroup(<<"a">>, 1, objs) :
        objs \in {q \in SeqsUpTo({ObjectInfo(k, 1, <<"a">>, FALSE, t, NULL) :
                                    k \in SelectKeys, t \in {1, 2}}, MaxGroupLen) :
                    \A i, j \in 1..Len(q) : i # j => q[i].key # q[j].key}}

\* the lists of criteria parse_keep accepts
CriteriaLists == SeqsUpTo(VALID_CRITERIA, MaxCriteria)

\* script_generator.py 113: keeper, to_delete = _select_to_delete(group, criteria)
SelectToDelete ==
    /\ pc = "called"
    /\ LET r == _select_to_delete(db.group, db.criteria)
       IN db' = [db EXCEPT !.keeper = <<r[1]>>, !.to_delete = r[2]]
    /\ pc' = "selected"
    /\ UNCHANGED <<bucket, objects, clock, bucketOps, scan, dbcalls, result, lastScan, hash, files, media_metadata>>

InitSelect ==
    /\ bucket = <<>>
    /\ objects = <<>>
    /\ clock = 0
    /\ bucketOps = 0
    /\ pc = "called"
    /\ scan = NoScan
    /\ dbcalls = <<>>
    /\ result = NoResult
    /\ lastScan = <<>>
    /\ hash = NoHash
    /\ \E g \in SelectGroups, c \in CriteriaLists :
            db = [op |-> "_select_to_delete", group |-> g, criteria |-> c,
                  keeper |-> <<>>, to_delete |-> <<>>]
    /\ files = <<>>
    /\ media_metadata = <<>>

NextSelect == SelectToDelete

SpecSelect == InitSelect /\ [][NextSelect]_vars

\* the members of the group of the call, the keeper and the deletion list
Members == {db.group.objects[i] : i \in 1..Len(db.group.objects)}
Keeper == db.keeper[1]
ToDelete == {db.to_delete[i] : i \in 1..Len(db.to_delete)}

\* the members whose tuple of per-criterion keys no member is smaller than
Smallest ==
    {o \in Members :
        \A m \in Members : ~ TupleLess(_build_sort_key(db.criteria, m),
                                       _build_sort_key(db.criteria, o))}

\* C15: for a group of at least one object with distinct keys and a non-empty list
\* of valid criteria, _select_to_delete returns one keeper that is a member of the
\* group, and the deletion list is exactly the group minus the keeper, each member
\* once.
C15_RetentionTotal ==
    pc = "selected" =>
        /\ Len(db.keeper) = 1
        /\ Keeper \in Members
        /\ ToDelete = Members \ {Keeper}
        /\ Len(db.to_delete) = Len(db.group.objects) - 1

\* three members, two of which tie with the keeper on the whole tuple
C15_Witness ==
    /\ pc = "selected"
    /\ Len(db.group.objects) = 3
    /\ Cardinality(Smallest) = 2
    /\ Len(db.criteria) = 2

\* C16 as stated: the keeper is smallest under the tuple of per-criterion keys and,
\* among the members that tie on the whole tuple, it has the smallest key string,
\* whatever the order of the members in the group.
C16_TieKeepsSmallestKey ==
    pc = "selected" =>
        /\ Keeper \in Smallest
        /\ \A o \in Smallest : o = Keeper \/ StrLess(Keeper.key, o.key)

\* the members are listed in ascending key order
KeyOrdered(objs) == \A i \in 1..(Len(objs) - 1) : StrLess(objs[i].key, objs[i + 1].key)

\* C16 amended: the keeper is smallest under the tuple of per-criterion keys; among
\* the members that tie on the whole tuple the one listed first in the group is
\* kept, which is the one with the smallest key string when the members are listed
\* in ascending key order.
C16_TieKeepsFirstListed ==
    pc = "selected" =>
        /\ Keeper \in Smallest
        /\ \A i, j \in 1..Len(db.group.objects) :
                (db.group.objects[i] = Keeper /\ db.group.objects[j] \in Smallest) => i <= j
        /\ KeyOrdered(db.group.objects) =>
                \A o \in Smallest : o = Keeper \/ StrLess(Keeper.key, o.key)

\* a tie on (shortest, oldest) between two members listed in ascending key order
\* before a member with a larger tuple
C16_Witness ==
    /\ pc = "selected"
    /\ db.criteria = <<"shortest", "oldest">>
    /\ KeyOrdered(db.group.objects)
    /\ Cardinality(Smallest) = 2
    /\ Len(db.group.objects) = 3
    /\ db.group.objects[3] \notin Smallest

----------------------------------------------------------------------------
(* cleaner.py: the rename planner *)

RECURSIVE Split(_, _)
\* str.split(sep): the segments of s, at least one
Split(s, sep) ==
    LET at == {i \in 1..Len(s) : s[i] = sep}
    IN IF at = {} THEN <<s>>
       ELSE LET first == CHOOSE i \in at : \A j \in at : i <= j
            IN <<SubSeq(s, 1, first - 1)>> \o Split(SubSeq(s, first + 1, Len(s)), sep)

RECURSIVE Join(_, _)
\* sep.join(parts)
Join(parts, sep) ==
    IF parts = <<>> THEN <<>>
    ELSE IF Len(parts) = 1 THEN parts[1]
    ELSE parts[1] \o <<sep>> \o Join(Tail(parts), sep)

\* cleaner.py StripSpacesRule.apply: <<cleaned>>, or <<>> for None
StripSpacesRule(key) ==
    LET segments == Split(key, "/")
        stripped == [i \in 1..Len(segments) |-> Strip(segments[i], " ")]
        cleaned == SelectSeq(stripped, LAMBDA seg : seg # <<>>)
        res == Join(cleaned, "/")
    IN IF res # key THEN <<res>> ELSE <<>>

\* cleaner.py AVAILABLE_RULES
AVAILABLE_RULES == {"strip-spaces"}

RECURSIVE Decimal(_)
\* str(n) for n >= 0
Decimal(n) ==
    LET d == <<"0", "1", "2", "3", "4", "5", "6", "7", "8", "9">>
    IN IF n < 10 THEN <<d[n + 1]>> ELSE Decimal(n \div 10) \o <<d[(n % 10) + 1]>>

\* the candidate of _suffixed for a given n: f"{root}_{n}{ext}"
Suffix(target, n) == splitext(target)[1] \o <<"_">> \o Decimal(n) \o splitext(target)[2]

\* _suffixed that puts the suffix, followed by a space, after the extension
_suffixed_AfterExt(target, taken) ==
    LET n == CHOOSE m \in 2..(Cardinality(taken) + 2) :
                /\ (target \o <<"_">> \o Decimal(m) \o <<" ">>) \notin taken
                /\ \A l \in 2..(m - 1) : (target \o <<"_">> \o Decimal(l) \o <<" ">>) \in taken
    IN target \o <<"_">> \o Decimal(n) \o <<" ">>

\* cleaner.py _suffixed: the first of target_2, target_3, ... that is not taken
_suffixed(target, taken) ==
    LET n == CHOOSE m \in 2..(Cardinality(taken) + 2) :
                /\ Suffix(target, m) \notin taken
                /\ \A l \in 2..(m - 1) : Suffix(target, l) \in taken
    IN Suffix(target, n)

\* a dict entry added to a dict given as a function
DictSet(d, k, v) == [j \in DOMAIN d \cup {k} |-> IF j = k THEN v ELSE d[j]]

RECURSIVE TargetOrder(_, _)
\* the keys of target_sources in insertion order: the targets of renames (a sequence
\* of <<source, target>> in the order of renames.items()) by first occurrence
TargetOrder(renames, seen) ==
    IF renames = <<>> THEN <<>>
    ELSE IF Head(renames)[2] \in seen THEN TargetOrder(Tail(renames), seen)
    ELSE <<Head(renames)[2]>> \o TargetOrder(Tail(renames), seen \cup {Head(renames)[2]})

RECURSIVE AssignSources_NoReserve(_, _, _, _)
\* AssignSources without taken.add(candidate)
AssignSources_NoReserve(acc, target, sources, i) ==
    IF sources = <<>> THEN acc
    ELSE LET candidate == IF i > 0 \/ target \in acc.taken
                          THEN _suffixed(target, acc.taken)
                          ELSE target
         IN AssignSources_NoReserve([taken |-> acc.taken,
                                     result |-> DictSet(acc.result, Head(sources), candidate)],
                                    target, Tail(sources), i + 1)

RECURSIVE AssignSources_AlwaysSuffix(_, _, _, _)
\* AssignSources that suffixes every candidate
AssignSources_AlwaysSuffix(acc, target, sources, i) ==
    IF sources = <<>> THEN acc
    ELSE LET candidate == _suffixed(target, acc.taken)
         IN AssignSources_AlwaysSuffix(
                [taken |-> acc.taken \cup {candidate},
                 result |-> DictSet(acc.result, Head(sources), candidate)],
                target, Tail(sources), i + 1)

RECURSIVE AssignSources_ReserveTarget(_, _, _, _)
\* AssignSources that reserves the target in place of the candidate
AssignSources_ReserveTarget(acc, target, sources, i) ==
    IF sources = <<>> THEN acc
    ELSE LET candidate == IF i > 0 \/ target \in acc.taken
                          THEN _suffixed(target, acc.taken)
                          ELSE target
         IN AssignSources_ReserveTarget(
                [taken |-> acc.taken \cup {target},
                 result |-> DictSet(acc.result, Head(sources), candidate)],
                target, Tail(sources), i + 1)

RECURSIVE AssignSources(_, _, _, _)
\* cleaner.py 78-84: for i, src in enumerate(sorted(sources)), from index i on
AssignSources(acc, target, sources, i) ==
    IF sources = <<>> THEN acc
    ELSE LET candidate == IF i > 0 \/ target \in acc.taken
                          THEN _suffixed(target, acc.taken)
                          ELSE target
         IN AssignSources([taken |-> acc.taken \cup {candidate},
                           result |-> DictSet(acc.result, Head(sources), candidate)],
                          target, Tail(sources), i + 1)

RECURSIVE AssignTargets_Unsorted(_, _, _)
\* AssignTargets that takes the sources of a target in insertion order
AssignTargets_Unsorted(acc, renames, targets) ==
    IF targets = <<>> THEN acc
    ELSE LET sources == SelectSeq(renames, LAMBDA r : r[2] = Head(targets))
         IN AssignTargets_Unsorted(
                AssignSources(acc, Head(targets),
                              [i \in 1..Len(sources) |-> sources[i][1]], 0),
                renames, Tail(targets))

RECURSIVE AssignTargets(_, _, _)
\* cleaner.py 77-84: for target, sources in target_sources.items()
AssignTargets(acc, renames, targets) ==
    IF targets = <<>> THEN acc
    ELSE LET sources == {renames[i][1] : i \in {j \in 1..Len(renames) :
                                                    renames[j][2] = Head(targets)}}
         IN AssignTargets(AssignSources(acc, Head(targets), SortKeys(sources), 0),
                          renames, Tail(targets))

\* cleaner.py _resolve_conflicts: source -> assigned target
_resolve_conflicts(renames, existing_keys) ==
    LET taken == existing_keys \ {renames[i][1] : i \in 1..Len(renames)}
    IN AssignTargets([taken |-> taken, result |-> <<>>], renames,
                     TargetOrder(renames, {})).result

----------------------------------------------------------------------------
(* SpecResolve: _resolve_conflicts applied to any renames map and any set of *)
(* existing keys                                                              *)

\* entries of a renames map
MaxRenames == 3

\* sources, intended targets and existing keys: a name, two names that
\* strip-spaces maps to it, and the first suffixed name
ResolveKeys ==
    {<<" ", "a", ".", "b">>, <<"a", ".", "b", " ">>, <<"a", ".", "b">>,
     <<"a", "_", "2", ".", "b">>}

\* the renames maps, as the sequence of their items: up to MaxRenames entries with
\* distinct sources, in any insertion order
RenamesMaps ==
    {r \in SeqsUpTo(ResolveKeys \X ResolveKeys, MaxRenames) :
        \A i, j \in 1..Len(r) : i # j => r[i][1] # r[j][1]}

\* cleaner.py 144: resolved = _resolve_conflicts(renames, existing_keys)
ResolveConflicts ==
    /\ pc = "called"
    /\ db' = [db EXCEPT !.resolved = _resolve_conflicts(db.renames, db.existing_keys)]
    /\ pc' = "resolved"
    /\ UNCHANGED <<bucket, objects, clock, bucketOps, scan, dbcalls, result, lastScan, hash, files, media_metadata>>

InitResolve ==
    /\ bucket = <<>>
    /\ objects = <<>>
    /\ clock = 0
    /\ bucketOps = 0
    /\ pc = "called"
    /\ scan = NoScan
    /\ dbcalls = <<>>
    /\ result = NoResult
    /\ lastScan = <<>>
    /\ hash = NoHash
    /\ \E r \in RenamesMaps, e \in SUBSET ResolveKeys :
            db = [op |-> "_resolve_conflicts", renames |-> r, existing_keys |-> e,
                  resolved |-> <<>>]
    /\ files = <<>>
    /\ media_metadata = <<>>

NextResolve == ResolveConflicts

SpecResolve == InitResolve /\ [][NextResolve]_vars

\* the sources of the renames map of the call
Sources == {db.renames[i][1] : i \in 1..Len(db.renames)}

\* C17: for any renames map and any set of existing keys, _resolve_conflicts assigns
\* exactly one target to every source (and to nothing else), the assigned targets
\* are pairwise distinct, and no assigned target is an existing key that is not
\* itself a source.
C17_RenamePlanTotal ==
    pc = "resolved" =>
        /\ DOMAIN db.resolved = Sources
        /\ \A s1, s2 \in Sources : s1 # s2 => db.resolved[s1] # db.resolved[s2]
        /\ \A src \in Sources : db.resolved[src] \notin db.existing_keys \ Sources

\* two sources aim at one target that an existing key holds, as another holds the
\* first suffixed name: both get a suffix, _3 and _4
C17_Witness ==
    /\ pc = "resolved"
    /\ Len(db.renames) = 2
    /\ \A i \in 1..2 : db.renames[i][2] = <<"a", ".", "b">>
    /\ <<"a", ".", "b">> \in db.existing_keys \ Sources
    /\ <<"a", "_", "2", ".", "b">> \in db.existing_keys \ Sources
    /\ \E src \in Sources : db.resolved[src] = <<"a", "_", "3", ".", "b">>
    /\ \E src \in Sources : db.resolved[src] = <<"a", "_", "4", ".", "b">>

----------------------------------------------------------------------------
(* script_generator.py generate_delete_script and cleaner.py generate_clean_script *)

\* db.py get_all_keys: SELECT key FROM objects WHERE key LIKE prefix || '%' ORDER BY key
get_all_keys(tbl, prefix) == SortKeys({k \in DOMAIN tbl : Like(k, prefix \o <<"%">>)})

RECURSIVE SumSeq(_)
SumSeq(q) == IF q = <<>> THEN 0 ELSE Head(q) + SumSeq(Tail(q))

\* db.py get_stats
get_stats(tbl) ==
    LET groups == get_all_duplicates(tbl)
    IN [total_objects |-> Cardinality(DOMAIN tbl),
        total_size |-> SumSeq([i \in 1..Cardinality(DOMAIN tbl) |->
                                    tbl[SortKeys(DOMAIN tbl)[i]].size]),
        duplicate_groups |-> Len(groups),
        duplicate_objects |-> SumSeq([i \in 1..Len(groups) |-> Len(groups[i].objects) - 1]),
        wasted_bytes |-> SumSeq([i \in 1..Len(groups) |->
                                    groups[i].size * (Len(groups[i].objects) - 1)])]

\* script_generator.py parse_keep on a string given as its words, commas and
\* spaces: <<"ok", criteria>> or <<"error", invalid>>
parse_keep(keep) ==
    LET pieces == Split(keep, ",")
        criteria == [i \in 1..Len(pieces) |-> Strip(pieces[i], " ")]
        invalid == SelectSeq(criteria, LAMBDA c : ~ (Len(c) = 1 /\ c[1] \in VALID_CRITERIA))
    IN IF invalid # <<>> THEN <<"error", invalid>>
       ELSE <<"ok", [i \in 1..Len(criteria) |-> criteria[i][1]]>>

\* cleaner.py _instantiate_rules: <<"ok", rules>> or <<"error", name>>
_instantiate_rules(rule_names) ==
    LET unknown == {i \in 1..Len(rule_names) : rule_names[i] \notin AVAILABLE_RULES}
    IN IF unknown # {}
       THEN <<"error", rule_names[CHOOSE i \in unknown : \A j \in unknown : i <= j]>>
       ELSE <<"ok", rule_names>>

RECURSIVE Escape(_)
\* key.replace("'", "'\\''")
Escape(key) ==
    IF key = <<>> THEN <<>>
    ELSE (IF Head(key) = "'" THEN <<"'", "\\", "'", "'">> ELSE <<Head(key)>>)
         \o Escape(Tail(key))

RECURSIVE ApplyRules(_, _)
\* cleaner.py 127-131: the rules applied in turn to a key
ApplyRules(cleaned, rules) ==
    IF rules = <<>> THEN cleaned
    ELSE LET res == StripSpacesRule(cleaned)
         IN ApplyRules(IF res # <<>> THEN res[1] ELSE cleaned, Tail(rules))

RECURSIVE PlanRenames(_, _)
\* cleaner.py 125-134: renames, as the sequence of its items
PlanRenames(all_keys, rules) ==
    IF all_keys = <<>> THEN <<>>
    ELSE LET cleaned == ApplyRules(Head(all_keys), rules)
         IN (IF cleaned # Head(all_keys) THEN << <<Head(all_keys), cleaned>> >> ELSE <<>>)
            \o PlanRenames(Tail(all_keys), rules)

\* original_renames[src], for renames given as the sequence of its items
DictGet(renames, src) == renames[CHOOSE i \in 1..Len(renames) : renames[i][1] = src][2]

\* cleaner.py _build_script: the header (with the number of renames) and, for
\* each source in ascending order, its aws s3 mv line, preceded by a comment
\* when its target is not the one of original_renames
_build_script(resolved, original_renames) ==
    LET srcs == SortKeys(DOMAIN resolved)
    IN <<[line |-> "header", count |-> Len(srcs)]>>
       \o Flatten([i \in 1..Len(srcs) |->
              (IF resolved[srcs[i]] # DictGet(original_renames, srcs[i])
               THEN <<[line |-> "comment",
                       original_tgt |-> DictGet(original_renames, srcs[i]),
                       tgt |-> resolved[srcs[i]]]>>
               ELSE <<>>)
              \o <<[line |-> "mv", src |-> Escape(srcs[i]),
                    tgt |-> Escape(resolved[srcs[i]])]>>])

\* cleaner.py _build_script_no_rename
_build_script_no_rename == <<[line |-> "header", count |-> 0], [line |-> "echo"]>>

RECURSIVE RmLines(_, _)
\* script_generator.py 112-128: per group the kept key and the aws s3 rm lines
RmLines(groups, criteria) ==
    IF groups = <<>> THEN <<>>
    ELSE LET r == _select_to_delete(Head(groups), criteria)
         IN <<[line |-> "keep", key |-> r[1].key]>>
            \o [i \in 1..Len(r[2]) |-> [line |-> "rm", key |-> Escape(r[2][i].key)]]
            \o RmLines(Tail(groups), criteria)

\* _write_file
WriteFile(fs, path, content) == [f \in DOMAIN fs \cup {path} |-> IF f = path THEN content ELSE fs[f]]

\* the record of a call of a script generator: how it ended (status), the index
\* queries it issued (reads), the index and the files when it was called
Call(op, args, status, reads) ==
    [op |-> op, args |-> args, status |-> status, reads |-> reads,
     objects_before |-> objects, files_before |-> files]

\* generate_delete_script that reads the index before it validates keep
GenerateDeleteScript_ValidateLate(keep) ==
    /\ pc = "idle"
    /\ pc' = "generated"
    /\ LET parsed == parse_keep(keep)
           groups == get_all_duplicates(objects)
           stats == get_stats(objects)
       IN IF parsed[1] = "error"
          THEN /\ db' = Call("generate_delete_script", keep, "error",
                             <<"get_all_duplicates", "get_stats">>)
               /\ files' = files
          ELSE /\ db' = Call("generate_delete_script", keep, "ok",
                             <<"get_all_duplicates", "get_stats">>)
               /\ files' = WriteFile(files, "delete_duplicates.sh",
                                     <<[line |-> "header", groups |-> stats.duplicate_groups,
                                        objects |-> stats.duplicate_objects]>>
                                     \o RmLines(groups, parsed[2]))
    /\ UNCHANGED <<bucket, objects, clock, bucketOps, scan, dbcalls, result, lastScan, hash, media_metadata>>

\* script_generator.py generate_delete_script
GenerateDeleteScript(keep) ==
    /\ pc = "idle"
    /\ pc' = "generated"
    /\ LET parsed == parse_keep(keep)
           groups == get_all_duplicates(objects)
           stats == get_stats(objects)
       IN IF parsed[1] = "error"
          THEN /\ db' = Call("generate_delete_script", keep, "error", <<>>)
               /\ files' = files
          ELSE /\ db' = Call("generate_delete_script", keep, "ok",
                             <<"get_all_duplicates", "get_stats">>)
               /\ files' = WriteFile(files, "delete_duplicates.sh",
                                     <<[line |-> "header", groups |-> stats.duplicate_groups,
                                        objects |-> stats.duplicate_objects]>>
                                     \o RmLines(groups, parsed[2]))
    /\ UNCHANGED <<bucket, objects, clock, bucketOps, scan, dbcalls, result, lastScan, hash, media_metadata>>

\* cleaner.py generate_clean_script, with its locals renames, existing_keys and
\* resolved; replanned, when not empty, holds the number of renames of the plan
\* that has just been applied for the same arguments
GenerateCleanScript(rules, prefix) ==
    /\ pc = "idle"
    /\ pc' = "generated"
    /\ LET active_rules == _instantiate_rules(rules)
           all_keys == get_all_keys(objects, prefix)
           existing_keys == {all_keys[i] : i \in 1..Len(all_keys)}
           renames == PlanRenames(all_keys, active_rules[2])
           resolved == _resolve_conflicts(renames, existing_keys)
           call == Call("generate_clean_script", <<rules, prefix>>, "ok", <<"get_all_keys">>)
           replanned == IF db.op = "applied" /\ db.args = <<rules, prefix>>
                        THEN <<db.rename_count>> ELSE <<>>
       IN IF active_rules[1] = "error"
          THEN /\ db' = Call("generate_clean_script", <<rules, prefix>>, "error", <<>>)
               /\ files' = files
          ELSE IF renames = <<>>
          THEN /\ db' = [op |-> call.op, args |-> call.args, status |-> call.status,
                         reads |-> call.reads, objects_before |-> call.objects_before,
                         files_before |-> call.files_before,
                         total_keys |-> Len(all_keys), rename_count |-> 0,
                         renames |-> renames, existing_keys |-> existing_keys,
                         resolved |-> <<>>, replanned |-> replanned]
               /\ files' = WriteFile(files, "clean.sh", _build_script_no_rename)
          ELSE /\ db' = [op |-> call.op, args |-> call.args, status |-> call.status,
                         reads |-> call.reads, objects_before |-> call.objects_before,
                         files_before |-> call.files_before,
                         total_keys |-> Len(all_keys), rename_count |-> Len(renames),
                         renames |-> renames, existing_keys |-> existing_keys,
                         resolved |-> resolved, replanned |-> replanned]
               /\ files' = WriteFile(files, "clean.sh", _build_script(resolved, renames))
    /\ UNCHANGED <<bucket, objects, clock, bucketOps, scan, dbcalls, result, lastScan, hash, media_metadata>>

RECURSIVE Move(_, _)
\* the aws s3 mv of each source to its target, in the order of the script, on a
\* set of keys given as a table
Move(tbl, moves) ==
    IF moves = <<>> THEN tbl
    ELSE LET src == Head(moves)[1]
             tgt == Head(moves)[2]
         IN Move(IF src \in DOMAIN tbl
                 THEN [k \in (DOMAIN tbl \ {src}) \cup {tgt} |->
                            IF k = tgt THEN tbl[src] ELSE tbl[k]]
                 ELSE tbl,
                 Tail(moves))

\* clean.sh is executed and the bucket scanned again: every rename of the plan is
\* applied to the keys
RunCleanScript ==
    /\ pc = "generated"
    /\ db.op = "generate_clean_script"
    /\ db.status = "ok"
    /\ LET srcs == SortKeys(DOMAIN db.resolved)
       IN objects' = Move(objects, [i \in 1..Len(srcs) |-> <<srcs[i], db.resolved[srcs[i]]>>])
    /\ db' = [op |-> "applied", args |-> db.args, rename_count |-> db.rename_count]
    /\ pc' = "idle"
    /\ UNCHANGED <<bucket, clock, bucketOps, scan, dbcalls, result, lastScan, hash, files, media_metadata>>

\* the generator has returned or raised and its script is not executed
ScriptReturn ==
    /\ pc = "generated"
    /\ pc' = "idle"
    /\ db' = NoDb
    /\ UNCHANGED <<bucket, objects, clock, bucketOps, scan, dbcalls, result, lastScan, hash, files, media_metadata>>

----------------------------------------------------------------------------
(* SpecScripts: the script generators over any index of a few keys, with the *)
(* rename script executed or not                                              *)

\* the keys of the index: a clean name, two names that strip-spaces maps to it,
\* its first suffixed name, a name that strip-spaces maps to that one, and a
\* nested name with spaces around its segments
CleanKeys ==
    {<<"a">>, <<" ", "a">>, <<"a", " ">>, <<"a", "_", "2">>, <<" ", "a", "_", "2">>,
     <<"d", " ", "/", " ", "a">>}

\* the prefixes passed to generate_clean_script
CleanPrefixes == {<<>>, <<" ">>, <<"d">>}

\* the rules passed to generate_clean_script
RuleLists == {<<"strip-spaces">>, <<"nonexistent">>, <<"strip-spaces", "nonexistent">>}

\* the keep strings passed to generate_delete_script: "shortest, oldest",
\* "largest", "shortest,largest" and "cleanest,"
KeepStrings ==
    {<<"shortest", ",", " ", "oldest">>, <<"largest">>, <<"shortest", ",", "largest">>,
     <<"cleanest", ",">>}

\* the row of an indexed single-part object
CleanRow ==
    [size |-> 1, etag |-> <<"a">>, is_multipart |-> FALSE, sha256 |-> NULL,
     last_modified |-> 1, scanned_at |-> 1]

\* the output files of an earlier run
OldFiles ==
    [f \in {"clean.sh", "delete_duplicates.sh"} |-> <<[line |-> "header", count |-> 0]>>]

InitScripts ==
    /\ bucket = <<>>
    /\ objects \in {[k \in K |-> CleanRow] : K \in SUBSET CleanKeys}
    /\ clock = 0
    /\ bucketOps = 0
    /\ pc = "idle"
    /\ scan = NoScan
    /\ dbcalls = <<>>
    /\ result = NoResult
    /\ lastScan = <<>>
    /\ hash = NoHash
    /\ db = NoDb
    /\ files \in {<<>>, OldFiles}
    /\ media_metadata = <<>>

NextScripts ==
    \/ \E keep \in KeepStrings : GenerateDeleteScript(keep)
    \/ \E rules \in RuleLists, prefix \in CleanPrefixes : GenerateCleanScript(rules, prefix)
    \/ RunCleanScript
    \/ ScriptReturn

SpecScripts == InitScripts /\ [][NextScripts]_vars

\* generate_clean_script has just written clean.sh
CleanScriptWritten ==
    pc = "generated" /\ db.op = "generate_clean_script" /\ db.status = "ok"

\* the aws s3 mv lines of clean.sh
MvLines ==
    {files["clean.sh"][i] : i \in {j \in 1..Len(files["clean.sh"]) :
                                        files["clean.sh"][j].line = "mv"}}

\* C18: for every index state and every prefix passed to generate_clean_script, no
\* emitted aws s3 mv line has as its target a key that is present in the index and
\* is not itself renamed by the script.
C18_NoMoveOntoIndexedKey ==
    CleanScriptWritten =>
        \A l \in MvLines : \A k \in DOMAIN objects :
            l.tgt = Escape(k) => \E m \in MvLines : m.src = Escape(k)

\* C19: if every rename of a plan produced by generate_clean_script (rule
\* strip-spaces) is applied to the key set, re-planning over the resulting key set
\* with the same arguments yields no rename at all (rename_count = 0).
C19_ReplanIsIdentity ==
    (CleanScriptWritten /\ db.replanned # <<>>) => db.rename_count = 0

\* the plan that was applied renamed three keys, two of them to suffixed names
C19_Witness ==
    /\ CleanScriptWritten
    /\ db.replanned = <<3>>
    /\ <<"a", "_", "3">> \in DOMAIN objects
    /\ <<"a", "_", "4">> \in DOMAIN objects

\* C20: generate_delete_script called with a keep string that holds an unknown
\* criterion, and generate_clean_script called with an unknown rule name, fail
\* before any query of the index and before the output file is created or
\* overwritten: index and files are as before the call.
C20_ValidationFirst ==
    (pc = "generated" /\ db.status = "error") =>
        /\ db.reads = <<>>
        /\ files = db.files_before
        /\ objects = db.objects_before

\* generate_delete_script has failed on "shortest,largest" over an index with
\* duplicates and an output file of an earlier run
C20_Witness ==
    /\ pc = "generated"
    /\ db.status = "error"
    /\ db.op = "generate_delete_script"
    /\ db.args = <<"shortest", ",", "largest">>
    /\ get_all_duplicates(objects) # <<>>
    /\ files = OldFiles

----------------------------------------------------------------------------
(* normalizer.py normalize_name *)

\* the least element of a non-empty set of positions; 0 for the empty set
First(at) == IF at = {} THEN 0 ELSE CHOOSE i \in at : \A j \in at : i <= j

\* re: \s*<rest>$ where <rest> matches from position j: the positions a match can
\* start at are j and every position of the run of spaces that ends before j
SpacesBefore(s, j) == {i \in 1..j : \A k \in i..(j - 1) : s[k] = " "}

\* the start positions of the matches of each pattern of _COPY_SUFFIX_PATTERNS in
\* stem, in the order of the list (re.I: the letters are compared in lower case)
CopySuffixMatches(stem) ==
    LET low == Lower(stem)
        n == Len(stem)
    IN << UNION {SpacesBefore(stem, j) :
                    j \in {m \in 1..(n - 1) :
                            /\ stem[n] = ")"
                            /\ DigitsToEnd(SubSeq(stem, 1, n - 1), m, "(")}},
          UNION {SpacesBefore(stem, j) :
                    j \in {m \in 1..n : DashWordToEnd(low, m, <<"c", "o", "p", "i", "e">>)}},
          UNION {SpacesBefore(stem, j) :
                    j \in {m \in 1..n : DashWordToEnd(low, m, <<"c", "o", "p", "y">>)}},
          {i \in 1..n : /\ i = n - 4
                        /\ stem[i] \in {"_", " "}
                        /\ EndsWith(low, <<"c", "o", "p", "y">>)},
          {i \in 1..n : DigitsToEnd(stem, i, "_")} >>

RECURSIVE StripPatterns(_, _)
\* the loop of _strip_copy_suffixes from pattern i on: pattern.sub("", stem) removes
\* the leftmost match, which runs to the end of the stem, and nothing else
StripPatterns(stem, i) ==
    IF i > 5 THEN stem
    ELSE LET at == First(CopySuffixMatches(stem)[i])
         IN StripPatterns(IF at = 0 THEN stem ELSE SubSeq(stem, 1, at - 1), i + 1)

\* normalizer.py _strip_copy_suffixes: every pattern is applied once, in list order
_strip_copy_suffixes(stem) == StripPatterns(stem, 1)

\* normalizer.py _strip_accents on the characters used: NFKD splits an accented
\* letter into the letter and a combining mark, which is dropped
_strip_accents(text) ==
    [i \in 1..Len(text) |->
        CASE text[i] = "A~" -> "A"
          [] text[i] = "a~" -> "a"
          [] OTHER -> text[i]]

RECURSIVE CollapseSpaces(_)
\* re.sub(r"\s+", " ", stem)
CollapseSpaces(s) ==
    IF Len(s) < 2 THEN s
    ELSE IF s[1] = " " /\ s[2] = " " THEN CollapseSpaces(Tail(s))
    ELSE <<s[1]>> \o CollapseSpaces(Tail(s))

\* normalizer.py normalize_name
normalize_name(key) ==
    LET parts == splitext(basename(key))
        stem == Lower(parts[1])
        ext == Lower(parts[2])
    IN CollapseSpaces(Strip(_strip_copy_suffixes(_strip_accents(stem)), " ")) \o ext

\* the pieces keys are made of: a letter, a capital with an accent, a space, a dot,
\* a path separator and three copy suffixes
NameParts ==
    {<<"a">>, <<"A~">>, <<" ">>, <<".">>, <<"/">>, <<"_", "1">>, <<"(", "1", ")">>,
     <<" ", "-", " ", "C", "o", "p", "y">>}

\* keys are made of at most MaxParts pieces
MaxParts == 4

\* the keys normalize_name and name_quality_score are called with
NormalizeKeys == {Flatten(q) : q \in SeqsUpTo(NameParts, MaxParts)}

\* normalize_name(key) and the scores of key and of its normalized form
NormalizeName ==
    /\ pc = "called"
    /\ db' = [db EXCEPT !.normalized = normalize_name(db.key),
                        !.score = name_quality_score(db.key),
                        !.normalized_score = name_quality_score(normalize_name(db.key))]
    /\ pc' = "normalized"
    /\ UNCHANGED <<bucket, objects, clock, bucketOps, scan, dbcalls, result, lastScan, hash, files, media_metadata>>

\* normalize_name of the normalized form
NormalizeAgain ==
    /\ pc = "normalized"
    /\ db' = [db EXCEPT !.renormalized = normalize_name(db.normalized)]
    /\ pc' = "renormalized"
    /\ UNCHANGED <<bucket, objects, clock, bucketOps, scan, dbcalls, result, lastScan, hash, files, media_metadata>>

InitNormalize ==
    /\ bucket = <<>>
    /\ objects = <<>>
    /\ clock = 0
    /\ bucketOps = 0
    /\ pc = "called"
    /\ scan = NoScan
    /\ dbcalls = <<>>
    /\ result = NoResult
    /\ lastScan = <<>>
    /\ hash = NoHash
    /\ \E k \in NormalizeKeys :
            db = [op |-> "normalize_name", key |-> k, normalized |-> <<>>,
                  renormalized |-> <<>>, score |-> 0, normalized_score |-> 0]
    /\ files = <<>>
    /\ media_metadata = <<>>

NextNormalize ==
    \/ NormalizeName
    \/ NormalizeAgain

SpecNormalize == InitNormalize /\ [][NextNormalize]_vars

\* C21: for every key k, normalize_name(normalize_name(k)) = normalize_name(k),
\* including keys whose stem carries several stacked copy suffixes.
C21_NormalizeIdempotent ==
    pc = "renormalized" => db.renormalized = db.normalized

\* C22: for every key k, name_quality_score(normalize_name(k)) <=
\* name_quality_score(k).
C22_QualityMonotone ==
    pc \in {"normalized", "renormalized"} => db.normalized_score <= db.score

----------------------------------------------------------------------------
(* C23, C24: the order and the names of _resolve_conflicts *)

\* the intended target of a source of the call
Intended(src) == db.renames[CHOOSE i \in 1..Len(db.renames) : db.renames[i][1] = src][2]

\* the place of a target in target_sources: the index of its first item in renames
TargetIndex(tgt) == First({i \in 1..Len(db.renames) : db.renames[i][2] = tgt})

\* s1 is processed before s2: its target comes first in target_sources, or they
\* share the target and s1 sorts first
ProcessedBefore(s1, s2) ==
    \/ TargetIndex(Intended(s1)) < TargetIndex(Intended(s2))
    \/ Intended(s1) = Intended(s2) /\ StrLess(s1, s2)

\* the names taken when src is processed: the existing keys that are not renamed
\* and the names assigned to the sources processed before it
TakenAt(src) ==
    (db.existing_keys \ Sources)
        \cup {db.resolved[s] : s \in {x \in Sources : ProcessedBefore(x, src)}}

\* the largest suffix number looked at
MaxSuffix == MaxRenames + Cardinality(ResolveKeys) + 2

\* C23: the sources that share an intended target are processed in lexicographic
\* order: the first receives the target itself when it is not taken, every other
\* one (and the first when the target is taken) receives <root>_n<ext> for the
\* smallest n >= 2 whose name is not taken at that moment, and each assigned name
\* is reserved before the next source is processed.
C23_SortedFirstFreeSuffix ==
    pc = "resolved" =>
        \A src \in Sources :
            LET tgt == Intended(src)
                first == \A s \in Sources : Intended(s) = tgt => ~StrLess(s, src)
            IN IF first /\ tgt \notin TakenAt(src)
               THEN db.resolved[src] = tgt
               ELSE \E n \in 2..MaxSuffix :
                        /\ db.resolved[src] = Suffix(tgt, n)
                        /\ Suffix(tgt, n) \notin TakenAt(src)
                        /\ \A m \in 2..(n - 1) : Suffix(tgt, m) \in TakenAt(src)

\* three sources inserted out of order share a target that an existing key holds:
\* the smallest source gets _2, the one inserted first sorts last and gets _4
C23_Witness ==
    /\ pc = "resolved"
    /\ Len(db.renames) = 3
    /\ \A i \in 1..3 : db.renames[i][2] = <<"a", ".", "b">>
    /\ db.renames[1][1] = <<"a", "_", "2", ".", "b">>
    /\ <<" ", "a", ".", "b">> \in Sources
    /\ <<"a", ".", "b">> \in db.existing_keys
    /\ db.resolved[<<" ", "a", ".", "b">>] = <<"a", "_", "2", ".", "b">>
    /\ db.resolved[<<"a", "_", "2", ".", "b">>] = <<"a", "_", "4", ".", "b">>

\* the sources of clean.sh whose aws s3 mv line follows a comment "Conflit resolu"
Commented ==
    {src \in Sources :
        \E i \in 1..(Len(files["clean.sh"]) - 1) :
            /\ files["clean.sh"][i].line = "comment"
            /\ files["clean.sh"][i].original_tgt = Intended(src)
            /\ files["clean.sh"][i + 1].src = Escape(src)}

\* the sources whose resolved target is not the intended one
Renamed == {src \in Sources : db.resolved[src] # Intended(src)}

\* C24 as stated: a source receives a resolved target different from its intended
\* target (and the script a comment) only if its intended target is an existing
\* key that is not renamed, or is also the intended target of another source.
C24_SuffixOnlyOnSharedOrExisting ==
    (CleanScriptWritten /\ db.rename_count > 0) =>
        \A src \in Renamed \cup Commented :
            \/ Intended(src) \in DOMAIN objects \ Sources
            \/ \E s \in Sources \ {src} : Intended(s) = Intended(src)

\* C24: a source receives a resolved target different from its intended target, and
\* the script a comment before its line, only if its intended target is an existing
\* key that is not renamed, or is also the intended target of another source, or
\* has been assigned to another source as its resolved target; the commented
\* lines are exactly those of such sources.
C24_SuffixOnlyOnCollision ==
    (CleanScriptWritten /\ db.rename_count > 0) =>
        /\ Commented = Renamed
        /\ \A src \in Renamed :
            \/ Intended(src) \in DOMAIN objects \ Sources
            \/ \E s \in Sources \ {src} : Intended(s) = Intended(src)
            \/ \E s \in Sources \ {src} : db.resolved[s] = Intended(src)

\* " a" and "a " both aim at "a" and the second gets "a_2", the name " a_2" aims
\* at: it gets "a_2_2" and a comment, though no key and no other source has its
\* intended target
C24_Witness ==
    /\ CleanScriptWritten
    /\ db.rename_count = 3
    /\ <<" ", "a", "_", "2">> \in Commented
    /\ db.resolved[<<"a", " ">>] = <<"a", "_", "2">>
    /\ db.resolved[<<" ", "a", "_", "2">>] = <<"a", "_", "2", "_", "2">>
    /\ <<"a", "_", "2">> \notin DOMAIN objects

----------------------------------------------------------------------------
(* C25: the keepers and the aws s3 rm lines of delete_duplicates.sh *)

\* the body of the script generate_delete_script writes for the index as it is
DeleteScript(criteria) == RmLines(get_all_duplicates(objects), criteria)

\* C25: in a script produced by generate_delete_script over any index state
\* reachable through scans and Pass 3, a key reported as the keeper of a group is
\* never the target of an aws s3 rm line anywhere in the same script.
C25_KeeperNeverRemoved ==
    pc = "idle" =>
        \A criteria \in CriteriaLists :
            LET lines == DeleteScript(criteria)
            IN \A i, j \in 1..Len(lines) :
                    (lines[i].line = "keep" /\ lines[j].line = "rm")
                        => lines[j].key # Escape(lines[i].key)

----------------------------------------------------------------------------
(* C26: a second pass right after a complete one *)

\* C26: after hash_multipart_candidates completes without error,
\* find_multipart_candidates returns no group, so an immediately repeated
\* hash_multipart_candidates issues no GET, writes nothing and returns 0.
C26_PassThreeFixpoint ==
    /\ (pc = "hashed" /\ hash.status = "ok") => find_multipart_candidates(objects) = <<>>
    /\ (pc \in {"hashing", "hashed"} /\ hash.prev = "ok") =>
            /\ pc = "hashed"
            /\ hash.status = "ok"
            /\ hash.gets = <<>>
            /\ hash.hashed = 0
            /\ objects = hash.before

\* the pass was repeated right after a complete pass over an index where a
\* multipart row and a row of the same size hold the digests the first pass stored
C26_Witness ==
    /\ pc = "hashed"
    /\ hash.prev = "ok"
    /\ hash.status = "ok"
    /\ \E k1, k2 \in DOMAIN objects :
            /\ k1 # k2
            /\ objects[k1].is_multipart
            /\ objects[k1].size = objects[k2].size
            /\ objects[k1].sha256 # NULL
            /\ objects[k2].sha256 # NULL

----------------------------------------------------------------------------
(* C28: digests and etags *)

\* the keys whose row gets an etag in a step: new rows and rows whose etag changes
EtagWritten ==
    {k \in DOMAIN objects' : k \notin DOMAIN objects \/ objects'[k].etag # objects[k].etag}

\* C28: whenever scan_bucket writes a record for a key whose listed etag differs
\* from the indexed one, the stored sha256 of that key becomes null; no step writes
\* an etag and leaves a digest on the row, so a non-null sha256 was written after
\* the row's current etag was written.
C28_NoStaleDigest ==
    [][\A k \in EtagWritten : objects'[k].sha256 = NULL]_vars

\* a scan has replaced the etag of a row that held a digest: the digest is gone
C28_Witness ==
    /\ pc = "returning"
    /\ \E k \in DOMAIN result.before \cap DOMAIN objects :
            /\ result.before[k].sha256 # NULL
            /\ result.before[k].etag # objects[k].etag
            /\ objects[k].sha256 = NULL

----------------------------------------------------------------------------
(* media.py and scanner.py extract_all_media_metadata *)

\* models.py MEDIA_EXTENSIONS
MEDIA_EXTENSIONS ==
    {<<".", "m", "p", "3">>, <<".", "f", "l", "a", "c">>, <<".", "o", "g", "g">>,
     <<".", "m", "4", "a">>, <<".", "a", "a", "c">>, <<".", "w", "m", "a">>,
     <<".", "o", "p", "u", "s">>, <<".", "w", "a", "v">>, <<".", "m", "p", "4">>,
     <<".", "m", "k", "v">>, <<".", "a", "v", "i">>, <<".", "m", "o", "v">>,
     <<".", "w", "m", "v">>, <<".", "w", "e", "b", "m">>}

\* media.py is_media_file
is_media_file(key) == Lower(splitext(key)[2]) \in MEDIA_EXTENSIONS

\* models.py MediaMetadata, with the artist tag for all the tags
MediaMetadata(key, artist) == [key |-> key, artist |-> artist]

\* media.py extract_metadata: the tags read from the first bytes of the object (here
\* the artist tag holds the body); without tags when the GET fails
extract_metadata(bkt, key) ==
    IF key \in DOMAIN bkt THEN MediaMetadata(key, bkt[key].body) ELSE MediaMetadata(key, NULL)

RECURSIVE upsert_media_metadata(_, _)
\* db.py upsert_media_metadata: INSERT ... ON CONFLICT (key) DO UPDATE, once per
\* record, in order
upsert_media_metadata(media, metadata_list) ==
    IF metadata_list = <<>> THEN media
    ELSE LET m == Head(metadata_list)
         IN upsert_media_metadata(
                [k \in DOMAIN media \cup {m.key} |->
                    IF k = m.key THEN [artist |-> m.artist] ELSE media[k]],
                Tail(metadata_list))

RECURSIVE ExtractLoop(_, _, _, _)
\* scanner.py 158-171: the loop over media_keys and the last flush
ExtractLoop(media, media_keys, batch, bkt) ==
    IF media_keys = <<>>
    THEN (IF batch # <<>> THEN upsert_media_metadata(media, batch) ELSE media)
    ELSE LET staged == Append(batch, extract_metadata(bkt, Head(media_keys)))
         IN IF Len(staged) >= BATCH_SIZE
            THEN ExtractLoop(upsert_media_metadata(media, staged), Tail(media_keys), <<>>, bkt)
            ELSE ExtractLoop(media, Tail(media_keys), staged, bkt)

\* scanner.py 132-141: the media keys of objects that have no row in media_metadata
MediaKeysToExtract(tbl, media) ==
    SelectSeq(SortKeys({k \in DOMAIN tbl : k \notin DOMAIN media}), is_media_file)

\* scanner.py extract_all_media_metadata
ExtractAllMediaMetadata ==
    /\ pc = "idle"
    /\ MediaKeysToExtract(objects, media_metadata) # <<>>
    /\ media_metadata' =
            ExtractLoop(media_metadata, MediaKeysToExtract(objects, media_metadata), <<>>, bucket)
    /\ UNCHANGED <<bucket, objects, clock, bucketOps, pc, scan, dbcalls, result, lastScan, hash, db, files>>

\* the keys of the bucket: three media files, one of them outside the prefix and
\* one with an upper-case extension, and a file that is not a media file
MediaKeys ==
    {<<"a", ".", "a", "a", "c">>, <<"a", "b", ".", "A", "A", "C">>, <<"b", ".", "a", "a", "c">>,
     <<"a", "b">>}

\* the prefixes scanned
MediaPrefixes == {<<>>, <<"a", "b">>}

\* every content of the bucket over MediaKeys
MediaBuckets == UNION {[K -> ObjectVersions] : K \in SUBSET MediaKeys}

InitMedia ==
    /\ bucket \in MediaBuckets
    /\ objects = <<>>
    /\ clock = 0
    /\ bucketOps = 0
    /\ pc = "idle"
    /\ scan = NoScan
    /\ dbcalls = <<>>
    /\ result = NoResult
    /\ lastScan = <<>>
    /\ hash = NoHash
    /\ db = NoDb
    /\ files = <<>>
    /\ media_metadata = <<>>

NextMedia ==
    \/ \E p \in MediaPrefixes : ScanStart(p)
    \/ ScanPage
    \/ ListingError
    \/ ScanFinish
    \/ ScanReturn
    \/ ExtractAllMediaMetadata
    \/ \E k \in MediaKeys, v \in ObjectVersions : PutObject(k, v)
    \/ \E k \in MediaKeys : DeleteObject(k)

SpecMedia == InitMedia /\ [][NextMedia]_vars

\* C27: starting from an empty index, after any sequence of scan_bucket and
\* extract_all_media_metadata runs, every media_metadata row has a key that is the
\* key of a row in objects (a key removed by reconciliation loses its metadata row
\* in the same delete_objects call).
C27_NoOrphanMetadata ==
    DOMAIN media_metadata \subseteq DOMAIN objects

\* a scan has removed a key that had a metadata row, another metadata row is left
C27_Witness ==
    /\ pc = "returning"
    /\ result.deleted > 0
    /\ \E k \in DOMAIN result.media_before : k \notin DOMAIN objects \cup DOMAIN media_metadata
    /\ media_metadata # <<>>

----------------------------------------------------------------------------
(* C29: the aws s3 mv lines of clean.sh in any order *)

\* the aws s3 mv lines of clean.sh as <<source, target>>, in every order
MoveOrders ==
    LET n == Cardinality(Sources)
    IN {[i \in 1..n |-> <<q[i], db.resolved[q[i]]>>] :
            q \in {f \in [1..n -> Sources] : \A i, j \in 1..n : i # j => f[i] # f[j]}}

\* C29: for every plan produced by generate_clean_script with the strip-spaces
\* rule, no resolved target (suffixed or not) is a source key of the same plan, no
\* aws s3 mv line reads or overwrites a key written by another line, and executing
\* the lines in any order yields the same final key set.
C29_MovesCommute ==
    (CleanScriptWritten /\ db.rename_count > 0) =>
        /\ \A src \in Sources : db.resolved[src] \notin Sources
        /\ \A l, m \in MvLines : l.tgt # m.src
        /\ \A l, m \in MvLines : l # m => l.tgt # m.tgt
        /\ \A o1, o2 \in MoveOrders : DOMAIN Move(objects, o1) = DOMAIN Move(objects, o2)

\* four keys are renamed, two of them to suffixed names, next to a key that stays
C29_Witness ==
    /\ CleanScriptWritten
    /\ db.rename_count = 4
    /\ Cardinality(Renamed) >= 2
    /\ DOMAIN objects \ Sources # {}
    /\ Cardinality(MoveOrders) = 24

----------------------------------------------------------------------------
(* SpecDelete: generate_delete_script over any index of a few keys, and the *)
(* script executed                                                          *)

\* the keys of the index: names of different lengths, one with a copy suffix and
\* one in a directory
DeleteKeys == {<<"b">>, <<"a", "b">>, <<"a", "_", "1">>, <<"d", "/", "a">>}

\* the rows of the index: single-part and multipart uploads of the same size, with
\* and without a digest, old and new
DeleteRows ==
    {[size |-> 1, etag |-> e, is_multipart |-> is_multipart_etag(e), sha256 |-> h,
      last_modified |-> t, scanned_at |-> 1] :
        e \in {<<"\"", "a", "\"">>, <<"\"", "b", "-", "2", "\"">>},
        h \in {NULL, <<"e", "1">>},
        t \in {1, 2}}

\* the keep strings passed to generate_delete_script: "newest", "cleanest,newest"
\* and "oldest, shortest"
DeleteKeeps ==
    {<<"newest">>, <<"cleanest", ",", "newest">>, <<"oldest", ",", " ", "shortest">>}

\* the lines of delete_duplicates.sh are executed: every aws s3 rm removes its
\* object, and the index follows
RunDeleteScript ==
    /\ pc = "generated"
    /\ db.op = "generate_delete_script"
    /\ db.status = "ok"
    /\ LET script == files["delete_duplicates.sh"]
           removed == {k \in DOMAIN objects :
                          \E i \in 1..Len(script) :
                              script[i].line = "rm" /\ script[i].key = Escape(k)}
       IN objects' = delete_objects(objects, removed)
    /\ db' = [db EXCEPT !.op = "deleted"]
    /\ pc' = "idle"
    /\ UNCHANGED <<bucket, clock, bucketOps, scan, dbcalls, result, lastScan, hash, files, media_metadata>>

InitDelete ==
    /\ bucket = <<>>
    /\ objects \in UNION {[K -> DeleteRows] : K \in SUBSET DeleteKeys}
    /\ clock = 0
    /\ bucketOps = 0
    /\ pc = "idle"
    /\ scan = NoScan
    /\ dbcalls = <<>>
    /\ result = NoResult
    /\ lastScan = <<>>
    /\ hash = NoHash
    /\ db = NoDb
    /\ files = <<>>
    /\ media_metadata = <<>>

NextDelete ==
    \/ \E keep \in DeleteKeeps : GenerateDeleteScript(keep)
    \/ RunDeleteScript

SpecDelete == InitDelete /\ [][NextDelete]_vars

RECURSIVE Connected(_, _)
\* the keys linked to the keys of S through groups that share a member
Connected(S, groupKeys) ==
    LET T == S \cup UNION {g \in groupKeys : g \cap S # {}}
    IN IF T = S THEN S ELSE Connected(T, groupKeys)

\* the groups of the script that has just been executed, each as its set of keys
DeletedGroups ==
    LET groups == get_all_duplicates(db.objects_before)
    IN {GroupKeys(groups[i]) : i \in 1..Len(groups)}

\* C30: for every index state and valid criteria, and for every group G emitted by
\* generate_delete_script, after executing all aws s3 rm lines of the script at
\* least one object remains among the members of G and of the groups that share a
\* member with G (transitively).
C30_NeverRemovesEveryCopy ==
    (pc = "idle" /\ db.op = "deleted") =>
        \A g \in DeletedGroups : Connected(g, DeletedGroups) \cap DOMAIN objects # {}

\* the script held an etag group and a hash group that share a member, and the
\* key kept for one of them was removed for the other
C30_Witness ==
    /\ pc = "idle"
    /\ db.op = "deleted"
    /\ \E g1, g2 \in DeletedGroups : g1 # g2 /\ g1 \cap g2 # {}
    /\ \E i \in 1..Len(files["delete_duplicates.sh"]) :
            /\ files["delete_duplicates.sh"][i].line = "keep"
            /\ files["delete_duplicates.sh"][i].key \notin DOMAIN objects
====
